---- MODULE Spec2Model ----
(***************************************************************************)
(* A model of the shelob SSH server framework: the acceptor               *)
(* (Server.listen), the per-connection lifecycle task                     *)
(* (Server.handleTCPConn / Server.closeConn) and the session channel      *)
(* state machine (sessionChannelHandler.handleRequests, session.handle,   *)
(* session.Exit, session.handlePtyReq).                                   *)
(*                                                                         *)
(* The acceptor and the session are two state machines over disjoint      *)
(* variables: Spec runs the acceptor with its connection tasks, SessSpec   *)
(* runs one session channel.                                               *)
(***************************************************************************)
EXTENDS Integers, Sequences, FiniteSets, TLC

\* ------------------------------------------------------------------ bounds

\* Number of TCP connections the clients attempt over a run.
NumConns == 2

\* The cap tried for Config.MaxConnections / Config.MaxClientConnections
\* (MaxCap + 1 connections are needed to exceed it).
MaxCap == 1

\* Config.MaxDeadline in milliseconds (a small value so that the cap is hit
\* after two timeouts).
MaxDeadlineCfg == 12

\* Number of requests the client sends on the session channel over a run.
MaxReqs == 3

\* Number of options passed to ListenAndServe(addr, opts...).
MaxOpts == 2

\* Number of global requests a client sends on one connection.
MaxGReqs == 2

\* Number of channels the clients open over a run.
MaxChans == 2

\* Length of the command string of an exec request.
MaxCmdLen == 4

\* Number of Exit calls made by user code, besides the automatic one.
NumUserExits == 1

\* Number of Signals calls made by a task of the user's code.
NumRegs == 2

\* Length of the longest byte string passed to Write.
MaxWriteLen == 4

\* ------------------------------------------------------- program constants

\* initialDeadline := 5 * time.Millisecond
initialDeadline == 5

\* closeCh := make(chan *net.TCPConn, 1)
CloseChCap == 1

\* s.winch = make(chan Window, 1)
WinchCap == 1

\* if len(signalBuffer) < 128
SignalBufferCap == 128

\* ------------------------------------------------------------------ inputs

\* Source IP addresses of the clients, in the order in which they first
\* connect (the addresses are interchangeable).
IPList == <<"ipA", "ipB">>

IPs == {IPList[i] : i \in DOMAIN IPList}

\* Values tried for Config.MaxConnections and Config.MaxClientConnections
\* (0 is unlimited).
CapChoices == 0..MaxCap

Conns == 1..NumConns

\* Exit codes returned by the user handler or passed to Exit by user code.
ExitCodes == {0, -1}

\* exec payloads: command strings, as sequences of characters.
ExecPayloads == { <<"a">>, <<"a", " ", "b">> }

\* Characters of a command string: an ordinary one, the blank, the double
\* quote.
CmdChars == {"a", " ", "Q"}

CmdStringsOfLen(n) == [1..n -> CmdChars]

\* Every command string of up to MaxCmdLen characters.
CmdStrings == UNION {CmdStringsOfLen(n) : n \in 0..MaxCmdLen}

\* env payloads: (key, value).
EnvPayloads == { <<"FOO", "bar">>, <<"LANG", "C">> }

\* Window sizes carried by pty-req and window-change payloads.
Windows == {"80x24", "100x40"}

\* Signal names carried by signal requests; "BOGUS" is not a POSIX signal name.
SignalNames == {"INT", "TERM", "BOGUS"}

\* The channels user code passes to Signals: its sink, or nil.
SinkChoices == {"sink", "nil"}

\* The bytes Write is given: carriage return, line feed, and another byte.
Bytes == {"CR", "LF", "x"}

\* Byte strings of length n, and of length up to n.
BytesOfLen(n) == [1..n -> Bytes]

ByteStrings == UNION {BytesOfLen(n) : n \in 0..MaxWriteLen}

\* The callers of session.Exit: the task started when the handler returns,
\* and user code.
UserExits == {<<"user", i>> : i \in 1..NumUserExits}

ExitCallers == {<<"auto", 0>>} \cup UserExits

\* ------------------------------------------------------------------- state

VARIABLES
    \* --- Config (immutable after construction)
    MaxConnections,        \* Config.MaxConnections
    MaxClientConnections,  \* Config.MaxClientConnections
    \* --- Server
    ctxDone,               \* s.ctx has been cancelled
    sigChan,               \* Config.SignalChan: "nil" | "idle" | "pending" | "stopped"
    closeCh,               \* s.closeCh: queue of connections, capacity CloseChCap
    accPc,                 \* position of ListenAndServe/listen: "start" | "loop" | "drain" | "returned"
    stopPc,                \* position of a Stop() caller: "idle" | "waiting" | "returned"
    listenerOpen,          \* the TCP listener is open
    \* --- locals of listen()
    wg,                    \* sync.WaitGroup counter
    openConnections,       \* openConnections
    clientConnections,     \* clientConnections: map from IP to count (DOMAIN = keys present)
    deadline,              \* deadline (ms), as passed to listener.SetDeadline at the
                           \* top of the loop iteration about to run
    \* --- connections
    nextConn,              \* the next connection the listener will hand out
    connIP,                \* remote IP of each accepted connection
    connState,             \* "none" | "refused" | "handshake" | "serving" | "notifying" | "exited"
    tcpClosed,             \* tcpConn.Close() has been called
    \* --- observers
    srvEvents,             \* server-wide events seen by the EventHandler, in order
    connEvents,            \* per connection: the events emitted for it, in order
    \* --- sessionChannelHandler / session (one session channel)
    allowPty,              \* sessionChannelHandler.allowPty
    sessCtxDone,           \* the context given to HandleChannel has been cancelled
    handled,               \* session.handled (0/1)
    exited,                \* session.exited (0/1)
    env,                   \* session.env
    cmd,                   \* session.cmd
    pty,                   \* session.pty: [present |-> FALSE] for nil, or the Pty with its window
    winch,                 \* session.winch: [state |-> "nil" | "open" | "closed", buf |-> queue]
    chanClosed,            \* the SSH channel has been closed
    connClosed,            \* the parent ssh.ServerConn has been closed
    loopPc,                \* request loop: "select" | "handler" | "inSignals" |
                           \* "winchSend" | "signalSend" | "returned"
    pendingWin,            \* the window a blocked `sess.winch <- win` is sending
    exitPc,                \* per Exit caller: "idle" | "cas" | "send" | "closeWinch" | "close" | "done" | "panic"
    exitCode,              \* per Exit caller: the code argument
    exitResult,            \* per Exit caller: "none" | "nil" | "err"
    panicked,              \* a task panicked: the process is gone
    \* --- observers
    reqCount,              \* requests taken from the request stream
    lastReq,               \* the last request taken and its reply
    handlerCalls,          \* invocations of the user SessionHandler
    statusSent,            \* exit-status requests sent on the channel, in order
    exitWon,               \* per Exit caller: its CAS flipped exited from 0 to 1
    exitEffects,           \* per Exit caller: what it sent or closed
    \* --- signal handling of handleRequests
    signalCh,              \* signalCh: "nil" or "sink", the channel last registered
    signalBuffer,          \* signalBuffer: the signals buffered, in order
    pendingSig,            \* the signal a blocked `signalCh <- sig` is sending
    replays,               \* the replay tasks started by registrations: each
                           \* [to |-> channel, rest |-> signals still to send]
    \* --- user code calling Signals from a task of its own
    regBudget,             \* Signals calls that task makes over the run
    regCount,              \* Signals calls it has made
    regPc,                 \* "idle" | "sending" (blocked on signalChCh)
    regVal,                \* the channel being registered
    \* --- observers
    sinkLog,               \* what the sink's consumer received, in order, each
                           \* <<signal, "replay" | "direct">>
    lastSig,               \* toSignal of the last signal request: a signal or "error"
    \* --- the request stream of the session channel
    reqsClosed,            \* reqs has been closed
    cmdOrigin,             \* the shell or exec request the session was started
                           \* by: its type and payload
    \* --- session.Write
    wIn,                   \* the bytes passed to Write
    wOut,                  \* the bytes Write passed to Channel.Write
    wChN,                  \* the count Channel.Write reported
    wN,                    \* the count Write returned
    \* --- observers of the acceptor's admission control and deadline
    refusedBy,             \* per connection: the check that refused it,
                           \* "none" | "global" | "client"
    timeouts,              \* consecutive accept timeouts since the last accept
                           \* or close notification (counted up to the cap)
    \* --- the channel loop of handleTCPConn
    chanCount,             \* channels opened by the clients so far
    chanLog,               \* per connection: what the loop did with each channel
    \* --- pubKeyCallbackWrapper
    pkCb,                  \* the caller's callback: absent (nil), or what it returns
    pkKey,                 \* the key that authenticates
    pkOut,                 \* what the wrapped callback returned
    \* --- ListenAndServe(addr, opts...) and New
    optPc,                 \* "start" | "opts" | "failed" | "serving"
    conf,                  \* the Config being built
    opts,                  \* the options passed by the caller
    optI,                  \* number of options applied so far
    lastOpt,               \* the last option applied and whether it failed
    \* --- Server.handleRequests (global requests of one connection)
    RequestHandlers,       \* Config.RequestHandlers: the request types registered
    greqPc,                \* "ranging" | "returned"
    greqCount,             \* global requests taken from the stream
    greqLog                \* per request: what was emitted, invoked and replied

accVars == <<MaxConnections, MaxClientConnections, ctxDone, sigChan, closeCh,
             accPc, stopPc, listenerOpen, wg, openConnections,
             clientConnections, deadline, nextConn, connIP, connState,
             tcpClosed, srvEvents, connEvents>>

sessVars == <<allowPty, sessCtxDone, handled, exited, env, cmd, pty, winch,
              chanClosed, connClosed, loopPc, pendingWin, exitPc, exitCode,
              exitResult, panicked, reqCount, lastReq, handlerCalls,
              statusSent, exitWon, exitEffects>>

sigVars == <<signalCh, signalBuffer, pendingSig, replays, regBudget, regCount,
             regPc, regVal, sinkLog, lastSig>>

wrVars == <<wIn, wOut, wChN, wN>>

admVars == <<refusedBy, timeouts>>

demuxVars == <<chanCount, chanLog>>

authVars == <<pkCb, pkKey, pkOut>>

optVars == <<optPc, conf, opts, optI, lastOpt>>

greqVars == <<RequestHandlers, greqPc, greqCount, greqLog>>

libVars == <<authVars, optVars, greqVars>>

vars == <<accVars, sessVars, sigVars, reqsClosed, cmdOrigin, wrVars, admVars,
          demuxVars, libVars>>

\* ---------------------------------------------------------------- helpers

\* Sum of the values of a map with a finite domain.
RECURSIVE SumOver(_, _)
SumOver(m, keys) ==
    IF keys = {} THEN 0
    ELSE LET k == CHOOSE x \in keys : TRUE
         IN m[k] + SumOver(m, keys \ {k})

SumCounts(m) == SumOver(m, DOMAIN m)

\* Go's map read: the zero value for an absent key.
MapGet(m, k) == IF k \in DOMAIN m THEN m[k] ELSE 0

\* Go's map write.
MapSet(m, k, v) == [x \in (DOMAIN m) \cup {k} |-> IF x = k THEN v ELSE m[x]]

\* Mutant: the deadline is never capped.
CapForgotten(d) == d

\* if deadline > s.config.MaxDeadline { deadline = s.config.MaxDeadline }
CapDeadline(d) == IF d > MaxDeadlineCfg THEN MaxDeadlineCfg ELSE d

\* The number of consecutive accept timeouts after one more, counted up to
\* the first k for which initialDeadline * 2^k reaches MaxDeadline (from
\* there on the deadline stays at the cap).
OneMoreTimeout(k) ==
    IF initialDeadline * (2 ^ k) >= MaxDeadlineCfg THEN k ELSE k + 1

\* Mutant: the global cap compared with > instead of >=.
GlobalCapOffByOne(open, max) == max > 0 /\ open > max

\* s.config.MaxConnections > 0 && openConnections >= s.config.MaxConnections
GlobalCapReached(open, max) == max > 0 /\ open >= max

\* Mutant: the per-IP cap compared with > instead of >=.
ClientCapOffByOne(cc, ip, max) ==
    max > 0 /\ ip \in DOMAIN cc /\ cc[ip] > max

\* s.config.MaxClientConnections > 0 &&
\*   (val, ok := clientConnections[ip]; ok && val >= s.config.MaxClientConnections)
ClientCapReached(cc, ip, max) ==
    max > 0 /\ ip \in DOMAIN cc /\ cc[ip] >= max

\* Mutant: the per-IP check runs before the global one.
RefusedByClientFirst(open, cc, ip) ==
    IF ClientCapReached(cc, ip, MaxClientConnections) THEN "client"
    ELSE IF GlobalCapReached(open, MaxConnections) THEN "global"
    ELSE "none"

\* The admission checks in their order: the check that refuses a connection
\* from `ip` (the first one that does, its `continue` skips the other), or
\* "none" when the connection is admitted.
RefusedBy(open, cc, ip) ==
    IF GlobalCapReached(open, MaxConnections) THEN "global"
    ELSE IF ClientCapReached(cc, ip, MaxClientConnections) THEN "client"
    ELSE "none"

\* Mutant: MaxConnectionsEvent whenever the count is at or over the value.
MaxConnectionsLevel(open, max) == open >= max

\* openConnections == s.config.MaxConnections  (after the increment)
MaxConnectionsHit(open, max) == open = max

\* clientConnections[ip] == s.config.MaxClientConnections  (after the increment)
MaxClientConnectionsHit(n, max) == n = max

\* Mutant: an admission that does not count the connection.
IncrForgotten(n) == n

\* openConnections++  /  openConnections--
Incr(n) == n + 1
Decr(n) == n - 1

\* wg.Add(1)
WgAdd(w) == w + 1

\* Mutant: the close branch does not call wg.Done().
WgDoneForgotten(w) == w

\* wg.Done()
WgDone(w) == w - 1

\* Mutant: the close branch leaves the per-IP count alone.
ClientDecrForgotten(cc, ip) == cc

\* if _, ok := clientConnections[ip]; ok { clientConnections[ip]-- }
ClientDecr(cc, ip) ==
    IF ip \in DOMAIN cc THEN [cc EXCEPT ![ip] = cc[ip] - 1] ELSE cc

\* clientConnections[ip]++
ClientIncr(cc, ip) == MapSet(cc, ip, MapGet(cc, ip) + 1)

\* Mutant: an admission emits no ConnectionOpened.
AdmissionEventsUnopened(open, n) ==
    (IF MaxConnectionsHit(open, MaxConnections)
        THEN <<"MaxConnectionsEvent">> ELSE <<>>)
    \o (IF MaxClientConnectionsHit(n, MaxClientConnections)
        THEN <<"MaxClientConnectionsEvent">> ELSE <<>>)

\* The events emitted by an admission, in the order of the code.
AdmissionEvents(open, n) ==
    (IF MaxConnectionsHit(open, MaxConnections)
        THEN <<"MaxConnectionsEvent">> ELSE <<>>)
    \o (IF MaxClientConnectionsHit(n, MaxClientConnections)
        THEN <<"MaxClientConnectionsEvent">> ELSE <<>>)
    \o <<"ConnectionOpened">>


\* ------------------------------------------------------- session helpers

\* shlex.Split (github.com/google/shlex) over blanks, double quotes ("Q")
\* and ordinary characters: the lexer from position i in state `st` with the
\* word under construction and the words returned so far. At the end of the
\* input inside a quote the lexer fails: Split returns the words it has so
\* far together with the error.
RECURSIVE SplitFrom(_, _, _, _, _)
SplitFrom(str, i, st, word, acc) ==
    IF i > Len(str)
    THEN CASE st = "start"   -> [words |-> acc, err |-> FALSE]
           [] st = "inWord"  -> [words |-> Append(acc, word), err |-> FALSE]
           [] st = "quoting" -> [words |-> acc, err |-> TRUE]
    ELSE CASE st = "start" ->
                IF str[i] = " "
                THEN SplitFrom(str, i + 1, "start", <<>>, acc)
                ELSE IF str[i] = "Q"
                THEN SplitFrom(str, i + 1, "quoting", <<>>, acc)
                ELSE SplitFrom(str, i + 1, "inWord", <<str[i]>>, acc)
           [] st = "inWord" ->
                IF str[i] = " "
                THEN SplitFrom(str, i + 1, "start", <<>>, Append(acc, word))
                ELSE IF str[i] = "Q"
                THEN SplitFrom(str, i + 1, "quoting", word, acc)
                ELSE SplitFrom(str, i + 1, "inWord", Append(word, str[i]), acc)
           [] st = "quoting" ->
                IF str[i] = "Q"
                THEN SplitFrom(str, i + 1, "inWord", word, acc)
                ELSE SplitFrom(str, i + 1, "quoting", Append(word, str[i]),
                               acc)

Split(str) == SplitFrom(str, 1, "start", <<>>, <<>>)

\* s.cmd, _ = shlex.Split(payload.Value): the words, the error discarded.
ShlexSplit(str) == Split(str).words

\* struct{ Status uint32 }{uint32(code)}: the 32-bit value as its two 16-bit
\* halves, high half first.
Uint32(code) == << (code \div 65536) % 65536, code % 65536 >>

\* Mutant: the handled flag is not consulted.
CASHandledAlways(flag) == TRUE

\* atomic.CompareAndSwapUint64(&s.handled, 0, 1) succeeds
CASHandled(flag) == flag = 0

\* Mutant: the exited flag is not consulted.
CASExitedAlways(flag) == TRUE

\* atomic.CompareAndSwapUint64(&s.exited, 0, 1) succeeds
CASExited(flag) == flag = 0

\* Mutant: the session never counts as handled.
hasBeenHandledNever == FALSE

\* s.hasBeenHandled()
hasBeenHandled == handled = 1

\* Channel.SendRequest fails on a channel or connection that is closed.
SendRequestFails == chanClosed \/ connClosed

\* bytes.Replace(s, old, new, -1): the non-overlapping occurrences of old,
\* found from left to right, replaced by new.
RECURSIVE ReplaceFrom(_, _, _, _)
ReplaceFrom(str, i, old, new) ==
    IF i > Len(str) THEN <<>>
    ELSE IF /\ i + Len(old) - 1 <= Len(str)
            /\ SubSeq(str, i, i + Len(old) - 1) = old
         THEN new \o ReplaceFrom(str, i + Len(old), old, new)
         ELSE <<str[i]>> \o ReplaceFrom(str, i + 1, old, new)

ReplaceAll(str, old, new) == ReplaceFrom(str, 1, old, new)

\* Mutant: the count of the channel is returned as it is.
ClampForgotten(n, m) == n

\* if n > m { n = m }
ClampCount(n, m) == IF n > m THEN m ELSE n

\* Mutant: the second replacement is left out.
NormalizeFirstPassOnly(p) == ReplaceAll(p, <<"LF">>, <<"CR", "LF">>)

\* session.Write with a PTY: \n becomes \r\n, then \r\r\n becomes \r\n.
Normalize(p) ==
    ReplaceAll(ReplaceAll(p, <<"LF">>, <<"CR", "LF">>),
               <<"CR", "CR", "LF">>, <<"CR", "LF">>)

\* toSignal: the os.Signal of a signal name of RFC 4254, an error otherwise
\* (of the thirteen names, those the clients of the model send).
toSignal(name) ==
    CASE name = "INT"  -> "SIGINT"
      [] name = "TERM" -> "SIGTERM"
      [] name = "HUP"  -> "SIGHUP"
      [] name = "KILL" -> "SIGKILL"
      [] OTHER         -> "error"

\* Mutant: the signal buffer takes one entry more than its limit.
BufferHasRoomOffByOne(buf) == Len(buf) <= SignalBufferCap

\* len(signalBuffer) < 128
BufferHasRoom(buf) == Len(buf) < SignalBufferCap

\* A signal buffer one short of its limit: what handleRequests holds after
\* the client has sent 127 valid signals with no sink registered.
AlmostFull ==
    [i \in 1..(SignalBufferCap - 1) |->
        IF i % 2 = 1 THEN "SIGINT" ELSE "SIGTERM"]

\* ------------------------------------------------------------------- Init

\* The server after New(): nothing listens yet. `caps` and `sigs` are the
\* configurations tried.
AccInit(caps, sigs) ==
    /\ MaxConnections \in caps
    /\ MaxClientConnections \in caps
    /\ ctxDone = FALSE
    /\ sigChan \in sigs
    /\ closeCh = <<>>
    /\ accPc = "start"
    /\ stopPc = "idle"
    /\ listenerOpen = FALSE
    /\ wg = 0
    /\ openConnections = 0
    /\ clientConnections = [ip \in {} |-> 0]
    /\ deadline = initialDeadline
    /\ nextConn = 1
    /\ connIP = [c \in Conns |-> "none"]
    /\ connState = [c \in Conns |-> "none"]
    /\ tcpClosed = [c \in Conns |-> FALSE]
    /\ srvEvents = <<>>
    /\ connEvents = [c \in Conns |-> <<>>]

\* A session channel right after HandleChannel has accepted it and
\* handleRequests has created the session: `ptys` are the values of allowPty
\* tried.
SessInit(ptys) ==
    /\ allowPty \in ptys
    /\ sessCtxDone = FALSE
    /\ handled = 0
    /\ exited = 0
    /\ env = <<>>
    /\ cmd = <<>>
    /\ pty = [present |-> FALSE, window |-> "none"]
    /\ winch = [state |-> "nil", buf |-> <<>>]
    /\ chanClosed = FALSE
    /\ connClosed = FALSE
    /\ loopPc = "select"
    /\ pendingWin = "none"
    /\ exitPc = [k \in ExitCallers |-> "idle"]
    /\ exitCode = [k \in ExitCallers |-> 0]
    /\ exitResult = [k \in ExitCallers |-> "none"]
    /\ panicked = FALSE
    /\ reqCount = 0
    /\ lastReq = [type |-> "none", reply |-> "none"]
    /\ handlerCalls = 0
    /\ statusSent = <<>>
    /\ exitWon = [k \in ExitCallers |-> FALSE]
    /\ exitEffects = [k \in ExitCallers |-> {}]

\* The signal state of handleRequests at session creation, or with `buffers`
\* already received; user code makes a number of Signals calls in `budgets`.
SigInit(budgets, buffers) ==
    /\ signalCh = "nil"
    /\ signalBuffer \in buffers
    /\ pendingSig = "none"
    /\ replays = <<>>
    /\ regBudget \in budgets
    /\ regCount = 0
    /\ regPc = "idle"
    /\ regVal = "none"
    /\ sinkLog = <<>>
    /\ lastSig = "none"

\* The request stream is open; Write is called with one of `inputs`.
IoInit(inputs) ==
    /\ reqsClosed = FALSE
    /\ cmdOrigin = [type |-> "none", payload |-> <<>>]
    /\ wIn \in inputs
    /\ wOut = <<>>
    /\ wChN = 0
    /\ wN = 0

\* ------------------------------------------------- pubKeyCallbackWrapper

\* Keys a client authenticates with.
Keys == {"rsa", "ed25519"}

\* key.Type(), string(key.Marshal()), ssh.FingerprintLegacyMD5(key)
KeyType(k) == IF k = "rsa" THEN "ssh-rsa" ELSE "ssh-ed25519"

KeyData(k) == IF k = "rsa" THEN "blob-rsa" ELSE "blob-ed25519"

KeyFingerprint(k) == IF k = "rsa" THEN "aa:01" ELSE "bb:02"

permKeyType == "pub-key-type"

permKeyData == "pub-key-data"

permKeyFingerprint == "pub-key-fingerprint"

Builtin == {permKeyType, permKeyData, permKeyFingerprint}

\* Extensions a caller's callback may have set: one of its own, and two with
\* the names the wrapper writes.
ExtNames == {"role", permKeyType, permKeyData}

ExtValues == {"admin", "stale"}

EmptyMap == [n \in {} |-> "none"]

ExtMaps == UNION {[D -> ExtValues] : D \in SUBSET ExtNames}

\* No callback (a nil PublicKeyCallback handed to the wrapper).
NoCallback ==
    [present |-> FALSE, permNil |-> TRUE, extNil |-> TRUE, ext |-> EmptyMap,
     err |-> "nil"]

\* What the caller's callback returns: nil permissions, permissions with nil
\* Extensions, or permissions with an Extensions map; and an error or none.
Callbacks ==
    {NoCallback}
    \cup {[present |-> TRUE, permNil |-> TRUE, extNil |-> TRUE,
           ext |-> EmptyMap, err |-> e] : e \in {"nil", "denied"}}
    \cup {[present |-> TRUE, permNil |-> FALSE, extNil |-> TRUE,
           ext |-> EmptyMap, err |-> e] : e \in {"nil", "denied"}}
    \cup {[present |-> TRUE, permNil |-> FALSE, extNil |-> FALSE,
           ext |-> m, err |-> e] : m \in ExtMaps, e \in {"nil", "denied"}}

\* Mutant: the extensions are replaced by the three builtin ones.
InjectReplaces(ext, key) ==
    MapSet(MapSet(MapSet(EmptyMap, permKeyType, KeyType(key)),
                  permKeyData, KeyData(key)),
           permKeyFingerprint, KeyFingerprint(key))

\* perm.Extensions[permKeyType] = key.Type(), and so on for the key's data
\* and fingerprint.
InjectKeyInfo(ext, key) ==
    MapSet(MapSet(MapSet(ext, permKeyType, KeyType(key)),
                  permKeyData, KeyData(key)),
           permKeyFingerprint, KeyFingerprint(key))

\* The function pubKeyCallbackWrapper(cb) returns, applied to `key`.
Wrapped(cb, key) ==
    IF ~cb.present
    THEN [called |-> TRUE, permNil |-> TRUE, extNil |-> TRUE,
          ext |-> EmptyMap, err |-> "ErrNoAuth"]
    ELSE IF cb.err # "nil"
    THEN [called |-> TRUE, permNil |-> TRUE, extNil |-> TRUE,
          ext |-> EmptyMap, err |-> cb.err]
    ELSE LET base == IF cb.permNil \/ cb.extNil THEN EmptyMap ELSE cb.ext
         IN [called |-> TRUE, permNil |-> FALSE, extNil |-> FALSE,
             ext |-> InjectKeyInfo(base, key), err |-> "nil"]

\* Before the wrapped callback is called; `cbs` are the callbacks tried.
AuthInit(cbs) ==
    /\ pkCb \in cbs
    /\ pkKey = "none"
    /\ pkOut = [called |-> FALSE, permNil |-> TRUE, extNil |-> TRUE,
                ext |-> EmptyMap, err |-> "nil"]

\* ------------------------------------- ListenAndServe(addr, opts...) / New

\* Options that touch conf.ServerConfig.
SSHOptions ==
    {"WithPasswordAuth", "WithPublicKeyAuth", "WithAuthLogCallback",
     "WithNoClientAuth"}

\* The options a caller passes: the four above, WithServerConfig with nil or
\* with a configuration, WithChannelHandler for session or another type,
\* WithMaxDeadline(0).
Options ==
    SSHOptions
    \cup {"WithServerConfig(nil)", "WithServerConfig(c)",
          "WithChannelHandler(session)", "WithChannelHandler(x11)",
          "WithMaxDeadline(0)"}

RECURSIVE OptionLists(_)
OptionLists(n) ==
    IF n = 0 THEN {<<>>}
    ELSE OptionLists(n - 1)
         \cup {Append(l, o) : l \in {x \in OptionLists(n - 1) : Len(x) = n - 1},
                              o \in Options}

\* A nil *ssh.ServerConfig, and &ssh.ServerConfig{}.
NilServerConfig ==
    [present |-> FALSE, PasswordCallback |-> "nil",
     PublicKeyCallback |-> "nil", AuthLogCallback |-> "nil",
     NoClientAuth |-> FALSE]

ZeroServerConfig == [NilServerConfig EXCEPT !.present = TRUE]

\* The Config of a caller that has not built one yet.
NoConfig ==
    [MaxDeadline |-> 0, ChannelHandlers |-> EmptyMap,
     ServerConfig |-> NilServerConfig]

\* MaxDeadline: time.Second, in milliseconds
DefaultMaxDeadline == 1000

\* Mutant: no default session handler is registered.
DefaultSessionForgotten(handlers) == handlers

\* if _, ok := conf.ChannelHandlers["session"]; !ok { ... = default handler }
DefaultSession(handlers) ==
    IF "session" \in DOMAIN handlers THEN handlers
    ELSE MapSet(handlers, "session", "default")

\* Mutant: the SSH configuration is never found missing.
ServerConfigNeverNil(c) == FALSE

\* conf.ServerConfig == nil
ServerConfigNil(c) == ~c.ServerConfig.present

\* opt(conf): the Config after the option and whether it returned an error.
ApplyOption(o, c) ==
    IF o \in SSHOptions /\ ServerConfigNil(c)
    THEN [conf |-> c, err |-> TRUE]
    ELSE [err |-> FALSE,
          conf |->
            CASE o = "WithPasswordAuth" ->
                   [c EXCEPT !.ServerConfig.PasswordCallback = "set"]
              [] o = "WithPublicKeyAuth" ->
                   [c EXCEPT !.ServerConfig.PublicKeyCallback = "set"]
              [] o = "WithAuthLogCallback" ->
                   [c EXCEPT !.ServerConfig.AuthLogCallback = "set"]
              [] o = "WithNoClientAuth" ->
                   [c EXCEPT !.ServerConfig.NoClientAuth = TRUE]
              [] o = "WithServerConfig(nil)" ->
                   [c EXCEPT !.ServerConfig = NilServerConfig]
              [] o = "WithServerConfig(c)" ->
                   [c EXCEPT !.ServerConfig = ZeroServerConfig]
              [] o = "WithChannelHandler(session)" ->
                   [c EXCEPT !.ChannelHandlers = MapSet(@, "session", "user")]
              [] o = "WithChannelHandler(x11)" ->
                   [c EXCEPT !.ChannelHandlers = MapSet(@, "x11", "user")]
              [] o = "WithMaxDeadline(0)" ->
                   [c EXCEPT !.MaxDeadline = 0]]

\* New(ctx, conf): the Config after the call, whether it returned an error,
\* and whether it returned a server.
New(c) ==
    LET d == IF c.MaxDeadline = 0
                 THEN [c EXCEPT !.MaxDeadline = DefaultMaxDeadline] ELSE c
    IN IF ServerConfigNil(d)
       THEN [conf |-> d, err |-> TRUE, srv |-> FALSE]
       ELSE [conf |-> IF d.ServerConfig.PublicKeyCallback # "nil"
                          THEN [d EXCEPT !.ServerConfig.PublicKeyCallback =
                                             "wrapped"]
                          ELSE d,
             err |-> FALSE, srv |-> TRUE]

\* Before ListenAndServe(addr, opts...) is called with one of `lists`.
OptInit(lists) ==
    /\ optPc = "start"
    /\ conf = NoConfig
    /\ opts \in lists
    /\ optI = 0
    /\ lastOpt = [name |-> "none", err |-> FALSE]

\* ------------------------------------------------- Server.handleRequests

\* Types of global requests a client sends.
GReqTypes == {"tcpip-forward", "keepalive"}

\* Payloads a request handler returns.
GReqPayloads == {"nil", "port"}

\* Mutant: a reply is sent whether or not the request wants one.
ReplyAlways(want) == TRUE

\* if req.WantReply { req.Reply(...) }
ReplySent(want) == want

\* What handleRequests does with one request of type `t` whose handler, if
\* registered, returns (ret, payload).
Dispatch(handlers, t, want, ret, payload) ==
    IF t \notin handlers
    THEN [type |-> t, want |-> want, event |-> "UnknownRequest", calls |-> 0,
          ret |-> FALSE, payload |-> "nil",
          reply |-> IF ReplySent(want)
                        THEN [sent |-> TRUE, ok |-> FALSE, payload |-> "nil"]
                        ELSE [sent |-> FALSE, ok |-> FALSE, payload |-> "nil"]]
    ELSE [type |-> t, want |-> want, event |-> "Request", calls |-> 1,
          ret |-> ret, payload |-> payload,
          reply |-> IF ReplySent(want)
                        THEN [sent |-> TRUE, ok |-> ret, payload |-> payload]
                        ELSE [sent |-> FALSE, ok |-> FALSE, payload |-> "nil"]]

\* The global-request task of a connection at its start; `sets` are the
\* handler registrations tried.
GReqInit(sets) ==
    /\ RequestHandlers \in sets
    /\ greqPc = "ranging"
    /\ greqCount = 0
    /\ greqLog = <<>>

\* No connection was accepted and the acceptor saw no timeout; no channel was
\* opened.
AdmInit ==
    /\ refusedBy = [c \in Conns |-> "none"]
    /\ timeouts = 0
    /\ chanCount = 0
    /\ chanLog = [c \in Conns |-> <<>>]

\* The library functions above are not in use.
LibRest ==
    /\ AuthInit({NoCallback})
    /\ OptInit({<<>>})
    /\ GReqInit({{}})

\* The acceptor with every configuration; the session variables rest.
Init ==
    /\ AccInit(CapChoices, {"nil", "idle"})
    /\ SessInit({FALSE})
    /\ SigInit({0}, {<<>>})
    /\ IoInit({<<>>})
    /\ AdmInit
    /\ LibRest

\* One session channel with either setting of allowPty; the acceptor
\* variables rest.
SessSpecInit ==
    /\ AccInit({0}, {"nil"})
    /\ SessInit(BOOLEAN)
    /\ SigInit({0}, {<<>>})
    /\ IoInit({<<>>})
    /\ AdmInit
    /\ LibRest

\* One session channel whose client sends signals: from session creation,
\* with user code that registers sinks, or from the point where 127 signals
\* are buffered, with user code that registers none.
SigSpecInit ==
    /\ AccInit({0}, {"nil"})
    /\ SessInit(BOOLEAN)
    /\ \/ SigInit({NumRegs}, {<<>>})
       \/ SigInit({0}, {AlmostFull})
    /\ IoInit({<<>>})
    /\ AdmInit
    /\ LibRest

\* ------------------------------------------------- Server.ListenAndServe

\* ListenAndServe up to the call of listen(): ServerStarted, the listener is
\* opened, ListenerOpened.
ListenAndServe ==
    /\ accPc = "start"
    /\ accPc' = "loop"
    /\ deadline' = CapDeadline(initialDeadline)
    /\ listenerOpen' = TRUE
    /\ srvEvents' = srvEvents \o <<"ServerStarted", "ListenerOpened">>
    /\ UNCHANGED <<MaxConnections, MaxClientConnections, ctxDone, sigChan,
                   closeCh, stopPc, wg, openConnections, clientConnections,
                   nextConn, connIP, connState, tcpClosed, connEvents>>
    /\ UNCHANGED <<sessVars, sigVars, reqsClosed, wrVars, admVars, demuxVars, cmdOrigin, libVars>>

\* ------------------------------------------------------- Server.listen
\*
\* One action per branch of the select. Every iteration that continues is
\* followed by the top of the next one (the cap of deadline and
\* SetDeadline), which is folded into the action: deadline always holds the
\* value the listener was last given.

\* case <-s.ctx.Done(): ServerStopped, listener.Close(), ListenerClosed,
\* break OUTER.
ListenCtxDone ==
    /\ accPc = "loop"
    /\ ctxDone
    /\ srvEvents' = srvEvents \o <<"ServerStopped", "ListenerClosed">>
    /\ listenerOpen' = FALSE
    /\ accPc' = "drain"
    /\ UNCHANGED <<MaxConnections, MaxClientConnections, ctxDone, sigChan,
                   closeCh, stopPc, wg, openConnections, clientConnections,
                   deadline, nextConn, connIP, connState, tcpClosed,
                   connEvents>>
    /\ UNCHANGED <<sessVars, sigVars, reqsClosed, wrVars, admVars, demuxVars, cmdOrigin, libVars>>

\* Mutant: cancel does nothing.
CancelForgotten(done) == done

\* s.cancel(): the server context is done from here on.
Cancel(done) == TRUE

\* case <-s.config.SignalChan: s.cancel(); signal.Stop(...); continue.
\* A receive from a nil channel is never ready.
ListenSignal ==
    /\ accPc = "loop"
    /\ sigChan = "pending"
    /\ deadline' = CapDeadline(deadline)
    /\ ctxDone' = Cancel(ctxDone)
    /\ sigChan' = "stopped"
    /\ UNCHANGED <<MaxConnections, MaxClientConnections, closeCh, accPc,
                   stopPc, listenerOpen, wg, openConnections,
                   clientConnections, nextConn, connIP, connState, tcpClosed,
                   srvEvents, connEvents>>
    /\ UNCHANGED <<sessVars, sigVars, reqsClosed, wrVars, admVars, demuxVars, cmdOrigin, libVars>>

\* case tcpConn := <-s.closeCh: wg.Done(), reset the deadline, decrement the
\* counters, ConnectionClosed.
ListenCloseNotification ==
    /\ accPc = "loop"
    /\ closeCh # <<>>
    /\ LET c == Head(closeCh)
           ip == connIP[c]
       IN /\ closeCh' = Tail(closeCh)
          /\ wg' = WgDone(wg)
          /\ deadline' = CapDeadline(initialDeadline)
          /\ openConnections' = Decr(openConnections)
          /\ clientConnections' = ClientDecr(clientConnections, ip)
          /\ connEvents' = [connEvents EXCEPT
                               ![c] = Append(@, "ConnectionClosed")]
    /\ timeouts' = 0
    /\ UNCHANGED <<MaxConnections, MaxClientConnections, ctxDone, sigChan,
                   accPc, stopPc, listenerOpen, nextConn, connIP, connState,
                   tcpClosed, srvEvents>>
    /\ UNCHANGED <<sessVars, sigVars, reqsClosed, wrVars, refusedBy, demuxVars, cmdOrigin, libVars>>

\* Mutant: the default branch does not look at the context.
DefaultIgnoresCtx ==
    /\ accPc = "loop"
    /\ sigChan # "pending"
    /\ closeCh = <<>>

\* The default branch is taken only when no other case of the select is ready.
DefaultReady ==
    /\ accPc = "loop"
    /\ ~ctxDone
    /\ sigChan # "pending"
    /\ closeCh = <<>>

\* default: Accept() times out: deadline *= 2.
ListenAcceptTimeout ==
    /\ DefaultReady
    /\ deadline' = CapDeadline(deadline * 2)
    /\ timeouts' = OneMoreTimeout(timeouts)
    /\ UNCHANGED <<MaxConnections, MaxClientConnections, ctxDone, sigChan,
                   closeCh, accPc, stopPc, listenerOpen, wg, openConnections,
                   clientConnections, nextConn, connIP, connState, tcpClosed,
                   srvEvents, connEvents>>
    /\ UNCHANGED <<sessVars, sigVars, reqsClosed, wrVars, refusedBy, demuxVars, cmdOrigin, libVars>>

\* default: Accept() fails with another error: ConnectionFailed.
ListenAcceptError ==
    /\ DefaultReady
    /\ deadline' = CapDeadline(deadline)
    /\ UNCHANGED <<MaxConnections, MaxClientConnections, ctxDone, sigChan,
                   closeCh, accPc, stopPc, listenerOpen, wg, openConnections,
                   clientConnections, nextConn, connIP, connState, tcpClosed,
                   srvEvents, connEvents>>
    /\ UNCHANGED <<sessVars, sigVars, reqsClosed, wrVars, admVars, demuxVars, cmdOrigin, libVars>>

\* default: Accept() returns a connection from `ip`: admission control, then
\* the connection is handed to a new handleTCPConn task.
ListenAccept(ip) ==
    /\ DefaultReady
    /\ nextConn \in Conns
    /\ LET c == nextConn IN
       /\ nextConn' = c + 1
       /\ connIP' = [connIP EXCEPT ![c] = ip]
       /\ deadline' = CapDeadline(initialDeadline)
       /\ timeouts' = 0
       /\ refusedBy' = [refusedBy EXCEPT
                            ![c] = RefusedBy(openConnections,
                                             clientConnections, ip)]
       /\ IF refusedBy'[c] # "none"
          THEN \* tcpConn.Close(); ConnectionClosed; continue
               /\ tcpClosed' = [tcpClosed EXCEPT ![c] = TRUE]
               /\ connEvents' = [connEvents EXCEPT
                                    ![c] = Append(@, "ConnectionClosed")]
               /\ connState' = [connState EXCEPT ![c] = "refused"]
               /\ UNCHANGED <<wg, openConnections, clientConnections>>
          ELSE /\ wg' = WgAdd(wg)
               /\ openConnections' = Incr(openConnections)
               /\ clientConnections' = ClientIncr(clientConnections, ip)
               /\ connEvents' = [connEvents EXCEPT
                                    ![c] = @ \o AdmissionEvents(
                                               openConnections',
                                               clientConnections'[ip])]
               /\ connState' = [connState EXCEPT ![c] = "handshake"]
               /\ UNCHANGED tcpClosed
    /\ UNCHANGED <<MaxConnections, MaxClientConnections, ctxDone, sigChan,
                   closeCh, accPc, stopPc, listenerOpen, srvEvents>>
    /\ UNCHANGED <<sessVars, sigVars, reqsClosed, wrVars, demuxVars, cmdOrigin, libVars>>

\* wg.Wait() returns; the deferred close(s.doneCh) runs and ListenAndServe
\* returns nil.
ListenDrained ==
    /\ accPc = "drain"
    /\ wg = 0
    /\ accPc' = "returned"
    /\ UNCHANGED <<MaxConnections, MaxClientConnections, ctxDone, sigChan,
                   closeCh, stopPc, listenerOpen, wg, openConnections,
                   clientConnections, deadline, nextConn, connIP, connState,
                   tcpClosed, srvEvents, connEvents>>
    /\ UNCHANGED <<sessVars, sigVars, reqsClosed, wrVars, admVars, demuxVars, cmdOrigin, libVars>>

\* --------------------------------------- Server.handleTCPConn / closeConn

\* ssh.NewServerConn fails: HandshakeFailed, return; the deferred closeConn
\* closes the TCP connection.
HandshakeFails(c) ==
    /\ connState[c] = "handshake"
    /\ connEvents' = [connEvents EXCEPT ![c] = Append(@, "HandshakeFailed")]
    /\ tcpClosed' = [tcpClosed EXCEPT ![c] = TRUE]
    /\ connState' = [connState EXCEPT ![c] = "notifying"]
    /\ UNCHANGED <<MaxConnections, MaxClientConnections, ctxDone, sigChan,
                   closeCh, accPc, stopPc, listenerOpen, wg, openConnections,
                   clientConnections, deadline, nextConn, connIP, srvEvents>>
    /\ UNCHANGED <<sessVars, sigVars, reqsClosed, wrVars, admVars, demuxVars, cmdOrigin, libVars>>

\* ssh.NewServerConn succeeds: HandshakeSuccessful; the task ranges over the
\* channel stream.
HandshakeSucceeds(c) ==
    /\ connState[c] = "handshake"
    /\ connEvents' = [connEvents EXCEPT
                         ![c] = Append(@, "HandshakeSuccessful")]
    /\ connState' = [connState EXCEPT ![c] = "serving"]
    /\ UNCHANGED <<MaxConnections, MaxClientConnections, ctxDone, sigChan,
                   closeCh, accPc, stopPc, listenerOpen, wg, openConnections,
                   clientConnections, deadline, nextConn, connIP, tcpClosed,
                   srvEvents>>
    /\ UNCHANGED <<sessVars, sigVars, reqsClosed, wrVars, admVars, demuxVars, cmdOrigin, libVars>>

\* Channel types the clients open, and those Config.ChannelHandlers has a
\* handler for.
ChanTypes == {"session", "x11"}

ChannelHandlers == {"session"}

\* Mutant: a handler is started for every channel.
HandlerStartedAlways(found, c) == <<c>>

\* go handler.HandleChannel(ctx, ch) when a handler was found: the contexts
\* handlers were started with for the channel (ctx is the context of
\* connection c).
HandlerStarted(found, c) == IF found THEN <<c>> ELSE <<>>

\* One iteration of `for ch := range channels` for a channel of type t on
\* connection c: what the loop did with the channel.
Demux(c, t) ==
    LET found == t \in ChannelHandlers IN
    [type |-> t,
     event |-> IF found THEN "Channel" ELSE "UnknownChannel",
     rejected |-> IF found THEN "no" ELSE "UnknownChannelType",
     started |-> HandlerStarted(found, c)]

\* The client of connection c opens a channel of type t: one iteration of
\* the channel loop.
ChannelOpened(c, t) ==
    /\ connState[c] = "serving"
    /\ chanCount < MaxChans
    /\ chanCount' = chanCount + 1
    /\ chanLog' = [chanLog EXCEPT ![c] = Append(@, Demux(c, t))]
    /\ connEvents' = [connEvents EXCEPT ![c] = Append(@, Demux(c, t).event)]
    /\ UNCHANGED <<MaxConnections, MaxClientConnections, ctxDone, sigChan,
                   closeCh, accPc, stopPc, listenerOpen, wg, openConnections,
                   clientConnections, deadline, nextConn, connIP, connState,
                   tcpClosed, srvEvents>>
    /\ UNCHANGED <<sessVars, sigVars, reqsClosed, wrVars, admVars, cmdOrigin, libVars>>

\* The channel stream is closed (the peer left, or a handler closed the
\* connection): the deferred cancel, sshConn.Wait, sshConn.Close run, then
\* closeConn closes the TCP connection.
ChannelsClosed(c) ==
    /\ connState[c] = "serving"
    /\ tcpClosed' = [tcpClosed EXCEPT ![c] = TRUE]
    /\ connState' = [connState EXCEPT ![c] = "notifying"]
    /\ UNCHANGED <<MaxConnections, MaxClientConnections, ctxDone, sigChan,
                   closeCh, accPc, stopPc, listenerOpen, wg, openConnections,
                   clientConnections, deadline, nextConn, connIP, srvEvents,
                   connEvents>>
    /\ UNCHANGED <<sessVars, sigVars, reqsClosed, wrVars, admVars, demuxVars, cmdOrigin, libVars>>

\* Mutant: the notification is put on the channel twice.
NotifyTwice(ch, c) == ch \o <<c, c>>

\* s.closeCh <- tcpConn
Notify(ch, c) == Append(ch, c)

\* closeConn: s.closeCh <- tcpConn, which blocks while the buffer is full.
CloseConnSend(c) ==
    /\ connState[c] = "notifying"
    /\ Len(closeCh) < CloseChCap
    /\ closeCh' = Notify(closeCh, c)
    /\ connState' = [connState EXCEPT ![c] = "exited"]
    /\ UNCHANGED <<MaxConnections, MaxClientConnections, ctxDone, sigChan,
                   accPc, stopPc, listenerOpen, wg, openConnections,
                   clientConnections, deadline, nextConn, connIP, tcpClosed,
                   srvEvents, connEvents>>
    /\ UNCHANGED <<sessVars, sigVars, reqsClosed, wrVars, admVars, demuxVars, cmdOrigin, libVars>>

\* ------------------------------------------------------------ environment

\* Server.Stop: s.cancel(), then block on <-s.doneCh.
Stop ==
    /\ stopPc = "idle"
    /\ ctxDone' = Cancel(ctxDone)
    /\ stopPc' = "waiting"
    /\ UNCHANGED <<MaxConnections, MaxClientConnections, sigChan, closeCh,
                   accPc, listenerOpen, wg, openConnections,
                   clientConnections, deadline, nextConn, connIP, connState,
                   tcpClosed, srvEvents, connEvents>>
    /\ UNCHANGED <<sessVars, sigVars, reqsClosed, wrVars, admVars, demuxVars, cmdOrigin, libVars>>

\* Server.Stop: <-s.doneCh is ready once listen() has closed doneCh.
StopReturns ==
    /\ stopPc = "waiting"
    /\ accPc = "returned"
    /\ stopPc' = "returned"
    /\ UNCHANGED <<MaxConnections, MaxClientConnections, ctxDone, sigChan,
                   closeCh, accPc, listenerOpen, wg, openConnections,
                   clientConnections, deadline, nextConn, connIP, connState,
                   tcpClosed, srvEvents, connEvents>>
    /\ UNCHANGED <<sessVars, sigVars, reqsClosed, wrVars, admVars, demuxVars, cmdOrigin, libVars>>

\* The context given to New is cancelled by its owner.
ParentCancel ==
    /\ ~ctxDone
    /\ ctxDone' = TRUE
    /\ UNCHANGED <<MaxConnections, MaxClientConnections, sigChan, closeCh,
                   accPc, stopPc, listenerOpen, wg, openConnections,
                   clientConnections, deadline, nextConn, connIP, connState,
                   tcpClosed, srvEvents, connEvents>>
    /\ UNCHANGED <<sessVars, sigVars, reqsClosed, wrVars, admVars, demuxVars, cmdOrigin, libVars>>

\* An OS signal is delivered on Config.SignalChan (one delivered after the
\* loop has exited is never received and is left out).
SignalArrives ==
    /\ sigChan = "idle"
    /\ accPc \in {"start", "loop"}
    /\ sigChan' = "pending"
    /\ UNCHANGED <<MaxConnections, MaxClientConnections, ctxDone, closeCh,
                   accPc, stopPc, listenerOpen, wg, openConnections,
                   clientConnections, deadline, nextConn, connIP, connState,
                   tcpClosed, srvEvents, connEvents>>
    /\ UNCHANGED <<sessVars, sigVars, reqsClosed, wrVars, admVars, demuxVars, cmdOrigin, libVars>>

\* The addresses a new connection may come from: one seen before, or the
\* next unseen one.
SeenIPs == {connIP[c] : c \in 1..(nextConn - 1)}

DialIPs ==
    SeenIPs \cup (IF Cardinality(SeenIPs) < Len(IPList)
                     THEN {IPList[Cardinality(SeenIPs) + 1]} ELSE {})

\* ------------------------------ sessionChannelHandler.handleRequests
\*
\* One action per request type: the loop takes the next request from the
\* stream and runs its case to the end (or to the point where it blocks).

\* The select of the request loop can take a request.
ReqReady ==
    /\ ~panicked
    /\ loopPc = "select"
    /\ ~reqsClosed
    /\ reqCount < MaxReqs

\* case "shell", "exec": sess.handle(ctx, req). The argument of
\* `go s.Exit(s.handler(ctx, s))` is evaluated by the calling task: the
\* request loop runs the user handler itself and goes on when it returns.
ReqShellExec(type, payload) ==
    /\ ReqReady
    /\ reqCount' = reqCount + 1
    /\ IF CASHandled(handled)
       THEN /\ handled' = 1
            /\ lastReq' = [type |-> type, reply |-> "true"]
            /\ cmd' = ShlexSplit(payload)
            /\ cmdOrigin' = [type |-> type, payload |-> payload]
            /\ handlerCalls' = handlerCalls + 1
            /\ loopPc' = "handler"
       ELSE /\ lastReq' = [type |-> type, reply |-> "false"]
            /\ UNCHANGED <<handled, cmd, cmdOrigin, handlerCalls, loopPc>>
    /\ UNCHANGED <<allowPty, sessCtxDone, exited, env, pty, winch, chanClosed,
                   connClosed, pendingWin, exitPc, exitCode, exitResult,
                   panicked, statusSent, exitWon, exitEffects>>
    /\ UNCHANGED <<accVars, sigVars, reqsClosed, wrVars, admVars, demuxVars, libVars>>

\* case "env"
ReqEnv(kv) ==
    /\ ReqReady
    /\ reqCount' = reqCount + 1
    /\ IF hasBeenHandled
       THEN /\ lastReq' = [type |-> "env", reply |-> "false"]
            /\ UNCHANGED env
       ELSE /\ env' = Append(env, <<kv[1], "=", kv[2]>>)
            /\ lastReq' = [type |-> "env", reply |-> "true"]
    /\ UNCHANGED <<allowPty, sessCtxDone, handled, exited, cmd, pty, winch,
                   chanClosed, connClosed, loopPc, pendingWin, exitPc,
                   exitCode, exitResult, panicked, handlerCalls, statusSent,
                   exitWon, exitEffects>>
    /\ UNCHANGED <<accVars, sigVars, reqsClosed, wrVars, admVars, demuxVars, cmdOrigin, libVars>>

\* Mutant: a PTY that is already set does not refuse the request.
PtyReqIgnoresExisting(ok) == allowPty /\ ~hasBeenHandled /\ ok

\* The pty-req is not refused: s.allowPty, then in handlePtyReq neither
\* hasBeenHandled() nor s.pty != nil, and parsePtyRequest succeeds.
PtyReqAccepted(ok) == allowPty /\ ~hasBeenHandled /\ ~pty.present /\ ok

\* case "pty-req": the allowPty check, then session.handlePtyReq. `ok` is the
\* result of parsePtyRequest, `w` the window of the payload.
ReqPty(ok, w) ==
    /\ ReqReady
    /\ reqCount' = reqCount + 1
    /\ IF ~PtyReqAccepted(ok)
       THEN /\ lastReq' = [type |-> "pty-req", reply |-> "false"]
            /\ UNCHANGED <<pty, winch>>
       ELSE /\ pty' = [present |-> TRUE, window |-> w]
            /\ winch' = [state |-> "open", buf |-> <<w>>]
            /\ lastReq' = [type |-> "pty-req", reply |-> "true"]
    /\ UNCHANGED <<allowPty, sessCtxDone, handled, exited, env, cmd,
                   chanClosed, connClosed, loopPc, pendingWin, exitPc,
                   exitCode, exitResult, panicked, handlerCalls, statusSent,
                   exitWon, exitEffects>>
    /\ UNCHANGED <<accVars, sigVars, reqsClosed, wrVars, admVars, demuxVars, cmdOrigin, libVars>>

\* case "window-change". `ok` is the result of parseWinchRequest. The send
\* on winch blocks while its buffer is full and panics when it is closed.
ReqWindowChange(ok, w) ==
    /\ ReqReady
    /\ reqCount' = reqCount + 1
    /\ IF ~pty.present
       THEN /\ lastReq' = [type |-> "window-change", reply |-> "false"]
            /\ UNCHANGED <<pty, winch, loopPc, pendingWin, panicked>>
       ELSE IF ~ok
       THEN /\ lastReq' = [type |-> "window-change", reply |-> "false"]
            /\ UNCHANGED <<pty, winch, loopPc, pendingWin, panicked>>
       ELSE /\ pty' = [pty EXCEPT !.window = w]
            /\ IF winch.state = "closed"
               THEN /\ panicked' = TRUE
                    /\ lastReq' = [type |-> "window-change", reply |-> "none"]
                    /\ UNCHANGED <<winch, loopPc, pendingWin>>
               ELSE IF Len(winch.buf) < WinchCap
               THEN /\ winch' = [winch EXCEPT !.buf = Append(@, w)]
                    /\ lastReq' = [type |-> "window-change", reply |-> "true"]
                    /\ UNCHANGED <<loopPc, pendingWin, panicked>>
               ELSE /\ loopPc' = "winchSend"
                    /\ pendingWin' = w
                    /\ lastReq' = [type |-> "window-change", reply |-> "none"]
                    /\ UNCHANGED <<winch, panicked>>
    /\ UNCHANGED <<allowPty, sessCtxDone, handled, exited, env, cmd,
                   chanClosed, connClosed, exitPc, exitCode, exitResult,
                   handlerCalls, statusSent, exitWon, exitEffects>>
    /\ UNCHANGED <<accVars, sigVars, reqsClosed, wrVars, admVars, demuxVars, cmdOrigin, libVars>>

\* The blocked `sess.winch <- win` goes through once the buffer has room
\* (then req.Reply(ok, nil)), or panics when winch has been closed.
WinchSendResumes ==
    /\ ~panicked
    /\ loopPc = "winchSend"
    /\ \/ /\ winch.state = "closed"
          /\ panicked' = TRUE
          /\ UNCHANGED <<winch, loopPc, pendingWin, lastReq>>
       \/ /\ winch.state = "open"
          /\ Len(winch.buf) < WinchCap
          /\ winch' = [winch EXCEPT !.buf = Append(@, pendingWin)]
          /\ pendingWin' = "none"
          /\ loopPc' = "select"
          /\ lastReq' = [type |-> "window-change", reply |-> "true"]
          /\ UNCHANGED panicked
    /\ UNCHANGED <<allowPty, sessCtxDone, handled, exited, env, cmd, pty,
                   chanClosed, connClosed, exitPc, exitCode, exitResult,
                   reqCount, handlerCalls, statusSent, exitWon, exitEffects>>
    /\ UNCHANGED <<accVars, sigVars, reqsClosed, wrVars, admVars, demuxVars, cmdOrigin, libVars>>

\* case req := <-reqs with req == nil: the stream is closed, a receive from
\* it is always ready and yields nil; continue.
LoopReqNil ==
    /\ ~panicked
    /\ loopPc = "select"
    /\ reqsClosed
    /\ UNCHANGED vars

\* case <-ctx.Done(): return; HandleChannel's deferred ch.Close() and
\* conn.Close() run.
LoopCtxDone ==
    /\ ~panicked
    /\ loopPc = "select"
    /\ sessCtxDone
    /\ loopPc' = "returned"
    /\ chanClosed' = TRUE
    /\ connClosed' = TRUE
    /\ UNCHANGED <<allowPty, sessCtxDone, handled, exited, env, cmd, pty,
                   winch, pendingWin, exitPc, exitCode, exitResult, panicked,
                   reqCount, lastReq, handlerCalls, statusSent, exitWon,
                   exitEffects>>
    /\ UNCHANGED <<accVars, sigVars, reqsClosed, wrVars, admVars, demuxVars, cmdOrigin, libVars>>

\* case "signal": an unknown name is skipped; with a sink registered the
\* loop sends the signal on it itself (and blocks until the sink takes it),
\* otherwise the signal is buffered while the buffer has room. No reply.
ReqSignal(name) ==
    /\ ReqReady
    /\ reqCount' = reqCount + 1
    /\ lastReq' = [type |-> "signal", reply |-> "none"]
    /\ lastSig' = toSignal(name)
    /\ IF toSignal(name) = "error"
       THEN UNCHANGED <<signalBuffer, pendingSig, loopPc>>
       ELSE IF signalCh # "nil"
       THEN /\ pendingSig' = toSignal(name)
            /\ loopPc' = "signalSend"
            /\ UNCHANGED signalBuffer
       ELSE /\ signalBuffer' = IF BufferHasRoom(signalBuffer)
                                THEN Append(signalBuffer, toSignal(name))
                                ELSE signalBuffer
            /\ UNCHANGED <<pendingSig, loopPc>>
    /\ UNCHANGED <<allowPty, sessCtxDone, handled, exited, env, cmd, pty, winch,
                   chanClosed, connClosed, pendingWin, exitPc, exitCode,
                   exitResult, panicked, handlerCalls, statusSent, exitWon,
                   exitEffects>>
    /\ UNCHANGED <<signalCh, replays, regBudget, regCount, regPc, regVal,
                   sinkLog>>
    /\ UNCHANGED <<accVars, reqsClosed, wrVars, admVars, demuxVars, cmdOrigin, libVars>>

\* The sink's consumer receives the signal the request loop is sending:
\* `signalCh <- sig` returns and the loop goes back to its select.
SinkReceivesDirect ==
    /\ ~panicked
    /\ loopPc = "signalSend"
    /\ sinkLog' = Append(sinkLog, <<pendingSig, "direct">>)
    /\ pendingSig' = "none"
    /\ loopPc' = "select"
    /\ UNCHANGED <<allowPty, sessCtxDone, handled, exited, env, cmd, pty, winch,
                   chanClosed, connClosed, pendingWin, exitPc, exitCode,
                   exitResult, panicked, reqCount, lastReq, handlerCalls,
                   statusSent, exitWon, exitEffects>>
    /\ UNCHANGED <<signalCh, signalBuffer, replays, regBudget, regCount, regPc,
                   regVal, lastSig>>
    /\ UNCHANGED <<accVars, reqsClosed, wrVars, admVars, demuxVars, cmdOrigin, libVars>>

\* case sigCh := <-signalChCh: signalCh = sigCh; with signals buffered, a new
\* task sends the buffer, as it is now, on the channel registered. The
\* buffer itself is left as it is.
LoopRegistersSink ==
    /\ ~panicked
    /\ loopPc = "select"
    /\ regPc = "sending"
    /\ signalCh' = regVal
    /\ regPc' = "idle"
    /\ replays' = IF Len(signalBuffer) > 0
                  THEN Append(replays, [to |-> regVal, rest |-> signalBuffer])
                  ELSE replays
    /\ UNCHANGED sessVars
    /\ UNCHANGED <<signalBuffer, pendingSig, regBudget, regCount, regVal,
                   sinkLog, lastSig>>
    /\ UNCHANGED <<accVars, reqsClosed, wrVars, admVars, demuxVars, cmdOrigin, libVars>>

\* The replay task i sends its next signal and the sink's consumer receives
\* it (`ch <- sig` on a nil channel blocks for ever). A task that has sent
\* everything ends.
ReplaySends(i) ==
    /\ ~panicked
    /\ i \in DOMAIN replays
    /\ replays[i].to = "sink"
    /\ sinkLog' = Append(sinkLog, <<Head(replays[i].rest), "replay">>)
    /\ replays' =
         IF Len(replays[i].rest) = 1
         THEN SubSeq(replays, 1, i - 1) \o SubSeq(replays, i + 1, Len(replays))
         ELSE [replays EXCEPT ![i].rest = Tail(@)]
    /\ UNCHANGED sessVars
    /\ UNCHANGED <<signalCh, signalBuffer, pendingSig, regBudget, regCount,
                   regPc, regVal, lastSig>>
    /\ UNCHANGED <<accVars, reqsClosed, wrVars, admVars, demuxVars, cmdOrigin, libVars>>

\* ------------------------------------------------------- session.handle

\* The user handler returns `code`: `go s.Exit(code)` starts the automatic
\* Exit in a new task and handle returns to the request loop.
HandlerReturns(code) ==
    /\ ~panicked
    /\ loopPc = "handler"
    /\ loopPc' = "select"
    /\ exitPc' = [exitPc EXCEPT ![<<"auto", 0>>] = "cas"]
    /\ exitCode' = [exitCode EXCEPT ![<<"auto", 0>>] = code]
    /\ UNCHANGED <<allowPty, sessCtxDone, handled, exited, env, cmd, pty,
                   winch, chanClosed, connClosed, pendingWin, exitResult,
                   panicked, reqCount, lastReq, handlerCalls, statusSent,
                   exitWon, exitEffects>>
    /\ UNCHANGED <<accVars, sigVars, reqsClosed, wrVars, admVars, demuxVars, cmdOrigin, libVars>>

\* ---------------------------------------------------------- session.Exit

\* if !atomic.CompareAndSwapUint64(&s.exited, 0, 1) { return error }
ExitCAS(k) ==
    /\ ~panicked
    /\ exitPc[k] = "cas"
    /\ IF CASExited(exited)
       THEN /\ exited' = 1
            /\ exitWon' = [exitWon EXCEPT ![k] = TRUE]
            /\ exitPc' = [exitPc EXCEPT ![k] = "send"]
            /\ UNCHANGED exitResult
       ELSE /\ exitResult' = [exitResult EXCEPT ![k] = "err"]
            /\ exitPc' = [exitPc EXCEPT ![k] = "done"]
            /\ UNCHANGED <<exited, exitWon>>
    /\ UNCHANGED <<allowPty, sessCtxDone, handled, env, cmd, pty, winch,
                   chanClosed, connClosed, loopPc, pendingWin, exitCode,
                   panicked, reqCount, lastReq, handlerCalls, statusSent,
                   exitEffects>>
    /\ UNCHANGED <<accVars, sigVars, reqsClosed, wrVars, admVars, demuxVars, cmdOrigin, libVars>>

\* s.Channel.SendRequest("exit-status", false, Marshal(status)); an error is
\* returned to the caller.
ExitSend(k) ==
    /\ ~panicked
    /\ exitPc[k] = "send"
    /\ IF SendRequestFails
       THEN /\ exitResult' = [exitResult EXCEPT ![k] = "err"]
            /\ exitPc' = [exitPc EXCEPT ![k] = "done"]
            /\ UNCHANGED <<statusSent, exitEffects>>
       ELSE /\ statusSent' = Append(statusSent, Uint32(exitCode[k]))
            /\ exitEffects' = [exitEffects EXCEPT ![k] = @ \cup {"exit-status"}]
            /\ exitPc' = [exitPc EXCEPT ![k] = "closeWinch"]
            /\ UNCHANGED exitResult
    /\ UNCHANGED <<allowPty, sessCtxDone, handled, exited, env, cmd, pty,
                   winch, chanClosed, connClosed, loopPc, pendingWin,
                   exitCode, panicked, reqCount, lastReq, handlerCalls,
                   exitWon>>
    /\ UNCHANGED <<accVars, sigVars, reqsClosed, wrVars, admVars, demuxVars, cmdOrigin, libVars>>

\* close(s.winch): closing a nil channel (no pty-req was accepted) or a
\* closed one panics.
ExitCloseWinch(k) ==
    /\ ~panicked
    /\ exitPc[k] = "closeWinch"
    /\ IF winch.state = "open"
       THEN /\ winch' = [winch EXCEPT !.state = "closed"]
            /\ exitEffects' = [exitEffects EXCEPT ![k] = @ \cup {"winch"}]
            /\ exitPc' = [exitPc EXCEPT ![k] = "close"]
            /\ UNCHANGED panicked
       ELSE /\ panicked' = TRUE
            /\ exitPc' = [exitPc EXCEPT ![k] = "panic"]
            /\ UNCHANGED <<winch, exitEffects>>
    /\ UNCHANGED <<allowPty, sessCtxDone, handled, exited, env, cmd, pty,
                   chanClosed, connClosed, loopPc, pendingWin, exitCode,
                   exitResult, reqCount, lastReq, handlerCalls, statusSent,
                   exitWon>>
    /\ UNCHANGED <<accVars, sigVars, reqsClosed, wrVars, admVars, demuxVars, cmdOrigin, libVars>>

\* s.Channel.Close(); s.conn.Close(); return nil
ExitClose(k) ==
    /\ ~panicked
    /\ exitPc[k] = "close"
    /\ chanClosed' = TRUE
    /\ connClosed' = TRUE
    /\ exitEffects' = [exitEffects EXCEPT ![k] = @ \cup {"channel", "conn"}]
    /\ exitResult' = [exitResult EXCEPT ![k] = "nil"]
    /\ exitPc' = [exitPc EXCEPT ![k] = "done"]
    /\ UNCHANGED <<allowPty, sessCtxDone, handled, exited, env, cmd, pty,
                   winch, loopPc, pendingWin, exitCode, panicked, reqCount,
                   lastReq, handlerCalls, statusSent, exitWon>>
    /\ UNCHANGED <<accVars, sigVars, reqsClosed, wrVars, admVars, demuxVars, cmdOrigin, libVars>>

\* ------------------------------------------------- the session's users

\* User code (the handler, or a task it started) calls Exit(code) on the
\* session it was given.
UserCallsExit(k, code) ==
    /\ ~panicked
    /\ handlerCalls > 0
    /\ exitPc[k] = "idle"
    /\ exitPc' = [exitPc EXCEPT ![k] = "cas"]
    /\ exitCode' = [exitCode EXCEPT ![k] = code]
    /\ UNCHANGED <<allowPty, sessCtxDone, handled, exited, env, cmd, pty,
                   winch, chanClosed, connClosed, loopPc, pendingWin,
                   exitResult, panicked, reqCount, lastReq, handlerCalls,
                   statusSent, exitWon, exitEffects>>
    /\ UNCHANGED <<accVars, sigVars, reqsClosed, wrVars, admVars, demuxVars, cmdOrigin, libVars>>

\* session.Signals called by the user handler itself: the send on the
\* unbuffered signalChCh waits for the request loop, which is the task that
\* is running the handler.
HandlerCallsSignals ==
    /\ ~panicked
    /\ loopPc = "handler"
    /\ loopPc' = "inSignals"
    /\ UNCHANGED <<allowPty, sessCtxDone, handled, exited, env, cmd, pty, winch,
                   chanClosed, connClosed, pendingWin, exitPc, exitCode,
                   exitResult, panicked, reqCount, lastReq, handlerCalls,
                   statusSent, exitWon, exitEffects>>
    /\ UNCHANGED <<accVars, sigVars, reqsClosed, wrVars, admVars, demuxVars, cmdOrigin, libVars>>

\* session.Signals(c) called by a task the user handler started: it blocks
\* on signalChCh until the request loop receives.
UserCallsSignals(c) ==
    /\ ~panicked
    /\ handlerCalls > 0
    /\ regPc = "idle"
    /\ regCount < regBudget
    /\ regCount' = regCount + 1
    /\ regPc' = "sending"
    /\ regVal' = c
    /\ UNCHANGED sessVars
    /\ UNCHANGED <<signalCh, signalBuffer, pendingSig, replays, regBudget,
                   sinkLog, lastSig>>
    /\ UNCHANGED <<accVars, reqsClosed, wrVars, admVars, demuxVars, cmdOrigin, libVars>>

\* User code receives a window from the channel returned by Pty().
UserReadsWinch ==
    /\ ~panicked
    /\ handlerCalls > 0
    /\ winch.buf # <<>>
    /\ winch' = [winch EXCEPT !.buf = Tail(@)]
    /\ UNCHANGED <<allowPty, sessCtxDone, handled, exited, env, cmd, pty,
                   chanClosed, connClosed, loopPc, pendingWin, exitPc,
                   exitCode, exitResult, panicked, reqCount, lastReq,
                   handlerCalls, statusSent, exitWon, exitEffects>>
    /\ UNCHANGED <<accVars, sigVars, reqsClosed, wrVars, admVars, demuxVars, cmdOrigin, libVars>>

\* The request stream of the channel is closed: the client closed the
\* channel, or the connection went away.
ReqStreamClosed ==
    /\ ~reqsClosed
    /\ reqsClosed' = TRUE
    /\ UNCHANGED <<accVars, sessVars, sigVars, wrVars, admVars, demuxVars, cmdOrigin, libVars>>

\* The connection context is cancelled: with the server context it derives
\* from, or by handleTCPConn's deferred cancel.
SessCtxCancel ==
    /\ ~sessCtxDone
    /\ sessCtxDone' = TRUE
    /\ UNCHANGED <<allowPty, handled, exited, env, cmd, pty, winch,
                   chanClosed, connClosed, loopPc, pendingWin, exitPc,
                   exitCode, exitResult, panicked, reqCount, lastReq,
                   handlerCalls, statusSent, exitWon, exitEffects>>
    /\ UNCHANGED <<accVars, sigVars, reqsClosed, wrVars, admVars, demuxVars, cmdOrigin, libVars>>

\* ------------------------------------------------------------------ Spec

AcceptorStep ==
    \/ ListenAndServe
    \/ ListenCtxDone
    \/ ListenSignal
    \/ ListenCloseNotification
    \/ ListenAcceptTimeout
    \/ ListenAcceptError
    \/ \E ip \in DialIPs : ListenAccept(ip)
    \/ ListenDrained

ConnStep ==
    \/ \E c \in Conns : HandshakeFails(c)
    \/ \E c \in Conns : HandshakeSucceeds(c)
    \/ \E c \in Conns : ChannelsClosed(c)
    \/ \E c \in Conns : CloseConnSend(c)

EnvStep ==
    \/ Stop
    \/ StopReturns
    \/ ParentCancel
    \/ SignalArrives

Next == AcceptorStep \/ ConnStep \/ EnvStep

Spec == Init /\ [][Next]_vars

\* The server with clients that open channels on their connections: no
\* connection caps, shutdown by the parent context or by a signal.
DemuxStep == \E c \in Conns, t \in ChanTypes : ChannelOpened(c, t)

DemuxNext ==
    AcceptorStep \/ ConnStep \/ DemuxStep \/ ParentCancel \/ SignalArrives

DemuxSpecInit ==
    /\ AccInit({0}, {"idle"})
    /\ SessInit({FALSE})
    /\ SigInit({0}, {<<>>})
    /\ IoInit({<<>>})
    /\ AdmInit
    /\ LibRest

DemuxSpec == DemuxSpecInit /\ [][DemuxNext]_vars

LoopStep ==
    \/ ReqShellExec("shell", <<>>)
    \/ \E payload \in ExecPayloads : ReqShellExec("exec", payload)
    \/ \E kv \in EnvPayloads : ReqEnv(kv)
    \/ \E ok \in BOOLEAN, w \in Windows : ReqPty(ok, w)
    \/ \E ok \in BOOLEAN, w \in Windows : ReqWindowChange(ok, w)
    \/ WinchSendResumes
    \/ LoopReqNil
    \/ LoopCtxDone
    \/ \E code \in ExitCodes : HandlerReturns(code)

ExitStep ==
    \/ \E k \in ExitCallers : ExitCAS(k)
    \/ \E k \in ExitCallers : ExitSend(k)
    \/ \E k \in ExitCallers : ExitCloseWinch(k)
    \/ \E k \in ExitCallers : ExitClose(k)

UserStep ==
    \/ \E k \in UserExits, code \in ExitCodes : UserCallsExit(k, code)
    \/ UserReadsWinch
    \/ ReqStreamClosed
    \/ SessCtxCancel

SessNext == LoopStep \/ ExitStep \/ UserStep

SessSpec == SessSpecInit /\ [][SessNext]_vars

\* A session whose client asks for a PTY or not and sends shell and exec
\* requests with every command string, some of which cannot be split; the
\* handler returns and Exit runs.
CmdNext ==
    \/ \E w \in Windows : ReqPty(TRUE, w)
    \/ ReqShellExec("shell", <<>>)
    \/ \E payload \in CmdStrings : ReqShellExec("exec", payload)
    \/ \E code \in ExitCodes : HandlerReturns(code)
    \/ ExitStep

CmdSpec == SessSpecInit /\ [][CmdNext]_vars

\* A user handler that honours its context returns once it is cancelled.
HandlerHonoursCtx == sessCtxDone /\ \E code \in ExitCodes : HandlerReturns(code)

\* What the request loop does by itself: everything but the return of the
\* user handler.
LoopWork ==
    \/ ReqShellExec("shell", <<>>)
    \/ \E payload \in ExecPayloads : ReqShellExec("exec", payload)
    \/ \E kv \in EnvPayloads : ReqEnv(kv)
    \/ \E ok \in BOOLEAN, w \in Windows : ReqPty(ok, w)
    \/ \E ok \in BOOLEAN, w \in Windows : ReqWindowChange(ok, w)
    \/ WinchSendResumes
    \/ LoopCtxDone

\* Fairness for the session: the request loop and the Exit tasks run
\* whenever they can, the client goes on sending while the loop receives, the
\* window channel's reader reads, and the handler honours its context. A
\* handler may otherwise run for as long as it likes.
SessFairSpec ==
    /\ SessSpec
    /\ WF_vars(LoopWork)
    /\ WF_vars(ExitStep)
    /\ WF_vars(UserReadsWinch)
    /\ WF_vars(HandlerHonoursCtx)

\* session.Write(p): with a PTY the bytes are normalized before they go to
\* Channel.Write and the count it reports (any number of the bytes it was
\* given) is cut to the length of p; without one the bytes and the count are
\* passed as they are.
SessionWrite ==
    /\ ~panicked
    /\ wOut' = IF pty.present THEN Normalize(wIn) ELSE wIn
    /\ \E k \in 0..Len(wOut') :
          /\ wChN' = k
          /\ wN' = IF pty.present THEN ClampCount(k, Len(wIn)) ELSE k
    /\ UNCHANGED <<accVars, sessVars, sigVars, reqsClosed, wIn, admVars, demuxVars, cmdOrigin, libVars>>

\* User code writes what went to the channel once more.
WritesOutputAgain ==
    /\ ~panicked
    /\ wOut # wIn
    /\ wIn' = wOut
    /\ UNCHANGED <<accVars, sessVars, sigVars, reqsClosed, wOut, wChN, wN, admVars, demuxVars, cmdOrigin, libVars>>

\* A session that is given a PTY, or none, and whose user code writes.
WrNext ==
    \/ \E w \in Windows : ReqPty(TRUE, w)
    \/ SessionWrite
    \/ WritesOutputAgain

\* Write is called with any byte string of up to MaxWriteLen bytes.
WrSpecInit ==
    /\ AccInit({0}, {"nil"})
    /\ SessInit({TRUE})
    /\ SigInit({0}, {<<>>})
    /\ IoInit(ByteStrings)
    /\ AdmInit
    /\ LibRest

WrSpec == WrSpecInit /\ [][WrNext]_vars

\* ----------------------------------------- the wrapped public-key callback

\* The SSH handshake calls the wrapped callback with the client's key.
PublicKeyAuth(key) ==
    /\ ~pkOut.called
    /\ pkKey' = key
    /\ pkOut' = Wrapped(pkCb, key)
    /\ UNCHANGED pkCb
    /\ UNCHANGED <<accVars, sessVars, sigVars, reqsClosed, wrVars, admVars,
                   demuxVars, cmdOrigin,
                   optVars, greqVars>>

AuthNext == \E key \in Keys : PublicKeyAuth(key)

\* The wrapper around every callback a caller may supply.
AuthSpecInit ==
    /\ AccInit({0}, {"nil"})
    /\ SessInit({FALSE})
    /\ SigInit({0}, {<<>>})
    /\ IoInit({<<>>})
    /\ AdmInit
    /\ AuthInit(Callbacks)
    /\ OptInit({<<>>})
    /\ GReqInit({{}})

AuthSpec == AuthSpecInit /\ [][AuthNext]_vars

\* ------------------------------------------ ListenAndServe(addr, opts...)

\* ListenAndServe builds the Config (MaxDeadline of one second, empty handler
\* maps, an empty ssh.ServerConfig) and registers the default session
\* handler.
ConvListenAndServe ==
    /\ optPc = "start"
    /\ conf' = [MaxDeadline |-> DefaultMaxDeadline,
                ChannelHandlers |-> DefaultSession(EmptyMap),
                ServerConfig |-> ZeroServerConfig]
    /\ optPc' = "opts"
    /\ UNCHANGED <<opts, optI, lastOpt>>
    /\ UNCHANGED <<accVars, sessVars, sigVars, reqsClosed, wrVars, admVars,
                   demuxVars, cmdOrigin,
                   authVars, greqVars>>

\* One iteration of `for _, opt := range opts`: the option is applied, its
\* error is returned.
OptionApplied ==
    /\ optPc = "opts"
    /\ optI < Len(opts)
    /\ LET r == ApplyOption(opts[optI + 1], conf) IN
       /\ conf' = r.conf
       /\ lastOpt' = [name |-> opts[optI + 1], err |-> r.err]
       /\ optPc' = IF r.err THEN "failed" ELSE "opts"
    /\ optI' = optI + 1
    /\ UNCHANGED opts
    /\ UNCHANGED <<accVars, sessVars, sigVars, reqsClosed, wrVars, admVars,
                   demuxVars, cmdOrigin,
                   authVars, greqVars>>

\* srv, err := New(ctx, conf) after the last option; on success
\* srv.ListenAndServe() follows.
NewCalled ==
    /\ optPc = "opts"
    /\ optI = Len(opts)
    /\ LET r == New(conf) IN
       /\ conf' = r.conf
       /\ lastOpt' = [name |-> "New", err |-> r.err]
       /\ optPc' = IF r.srv THEN "serving" ELSE "failed"
    /\ UNCHANGED <<opts, optI>>
    /\ UNCHANGED <<accVars, sessVars, sigVars, reqsClosed, wrVars, admVars,
                   demuxVars, cmdOrigin,
                   authVars, greqVars>>

OptNext == ConvListenAndServe \/ OptionApplied \/ NewCalled

\* ListenAndServe(addr, opts...) with every list of up to MaxOpts options.
OptSpecInit ==
    /\ AccInit({0}, {"nil"})
    /\ SessInit({FALSE})
    /\ SigInit({0}, {<<>>})
    /\ IoInit({<<>>})
    /\ AdmInit
    /\ AuthInit({NoCallback})
    /\ OptInit(OptionLists(MaxOpts))
    /\ GReqInit({{}})

OptSpec == OptSpecInit /\ [][OptNext]_vars

\* -------------------------------------------------- Server.handleRequests

\* One iteration of `for req := range in`.
GlobalRequest(t, want, ret, payload) ==
    /\ greqPc = "ranging"
    /\ greqCount < MaxGReqs
    /\ greqCount' = greqCount + 1
    /\ greqLog' = Append(greqLog,
                         Dispatch(RequestHandlers, t, want, ret, payload))
    /\ UNCHANGED <<RequestHandlers, greqPc>>
    /\ UNCHANGED <<accVars, sessVars, sigVars, reqsClosed, wrVars, admVars,
                   demuxVars, cmdOrigin,
                   authVars, optVars>>

\* The request stream of the connection is closed: the range loop ends.
GlobalRequestsClosed ==
    /\ greqPc = "ranging"
    /\ greqPc' = "returned"
    /\ UNCHANGED <<RequestHandlers, greqCount, greqLog>>
    /\ UNCHANGED <<accVars, sessVars, sigVars, reqsClosed, wrVars, admVars,
                   demuxVars, cmdOrigin,
                   authVars, optVars>>

GReqNext ==
    \/ \E t \in GReqTypes, want \in BOOLEAN, ret \in BOOLEAN,
          payload \in GReqPayloads : GlobalRequest(t, want, ret, payload)
    \/ GlobalRequestsClosed

\* The global-request task with every registration of handlers.
GReqSpecInit ==
    /\ AccInit({0}, {"nil"})
    /\ SessInit({FALSE})
    /\ SigInit({0}, {<<>>})
    /\ IoInit({<<>>})
    /\ AdmInit
    /\ AuthInit({NoCallback})
    /\ OptInit({<<>>})
    /\ GReqInit(SUBSET GReqTypes)

GReqSpec == GReqSpecInit /\ [][GReqNext]_vars

\* The session of a client that sends signal, env, pty-req and shell
\* requests, with user code that registers signal sinks.
SigLoopStep ==
    \/ \E name \in SignalNames : ReqSignal(name)
    \/ ReqShellExec("shell", <<>>)
    \/ \E kv \in EnvPayloads : ReqEnv(kv)
    \/ \E w \in Windows : ReqPty(TRUE, w)
    \/ LoopRegistersSink
    \/ LoopCtxDone
    \/ HandlerReturns(0)
    \/ HandlerCallsSignals

SigTaskStep ==
    \/ \E i \in 1..NumRegs : ReplaySends(i)
    \/ SinkReceivesDirect
    \/ \E c \in SinkChoices : UserCallsSignals(c)
    \/ SessCtxCancel

SigNext == SigLoopStep \/ SigTaskStep \/ ExitStep

SigSpec == SigSpecInit /\ [][SigNext]_vars

\* Fairness for the signal session: every task that can take a step
\* eventually takes one (the sink's consumer receives, the client goes on
\* sending, the context is eventually cancelled).
SigFairSpec == SigSpec /\ WF_vars(SigNext)

\* Fairness for the signal session with a sink whose consumer is slow: the
\* request loop and the Exit task run whenever they can and the client goes
\* on sending; when, and whether, the sink's consumer receives is left open.
SigSlowSinkSpec == SigSpec /\ WF_vars(SigLoopStep) /\ WF_vars(ExitStep)

\* Fairness: the Go scheduler runs every runnable task, so the acceptor and
\* the connection tasks take a step whenever one stays possible; that every
\* connection's channel stream eventually ends is the premise of the
\* termination claims.
FairSpec ==
    Spec /\ WF_vars(AcceptorStep) /\ WF_vars(ConnStep) /\ WF_vars(StopReturns)

\* ----------------------------------------------------------- observations

\* Number of occurrences of event e in a log.
Count(log, e) == Cardinality({i \in DOMAIN log : log[i] = e})

\* Connections that were admitted (ConnectionOpened was emitted).
Admitted(c) == Count(connEvents[c], "ConnectionOpened") > 0

\* Number of events e over all connections.
RECURSIVE TotalOver(_, _)
TotalOver(e, cs) ==
    IF cs = {} THEN 0
    ELSE LET c == CHOOSE x \in cs : TRUE
         IN Count(connEvents[c], e) + TotalOver(e, cs \ {c})

Total(e) == TotalOver(e, Conns)

\* The step accepts a connection (admitted or refused).
AcceptsConn == nextConn' = nextConn + 1

\* ------------------------------------------------------------------ claims

\* C1: graceful shutdown terminates: once the acceptor has left its loop with
\* N >= 1 admitted connections still open, and every connection task finishes,
\* ListenAndServe eventually returns and a blocked Stop() returns.
C1_ShutdownTerminates ==
    /\ (accPc = "drain" /\ wg >= 1) ~> (accPc = "returned")
    /\ (stopPc = "waiting") ~> (stopPc = "returned")

\* C2: for every admitted connection exactly one ConnectionClosed event is
\* eventually emitted, also when it is still open when shutdown begins.
C2_AdmittedEventuallyClosed ==
    \A c \in Conns :
        Admitted(c) ~> (Count(connEvents[c], "ConnectionClosed") = 1)

\* C3: between accept-loop iterations openConnections equals the sum of
\* clientConnections over all IPs of the map.
C3_OpenIsSumOfClients ==
    openConnections = SumCounts(clientConnections)

\* C3 witness: one connection was admitted and closed, another is open.
C3_Witness ==
    /\ openConnections = 1
    /\ \E c \in Conns : Admitted(c) /\ Count(connEvents[c], "ConnectionClosed") = 1
    /\ \E c \in Conns : connState[c] \in {"handshake", "serving"}

\* C4: openConnections and every clientConnections[ip] are >= 0 in every
\* reachable state.
C4_CountsNonNegative ==
    /\ openConnections >= 0
    /\ \A ip \in DOMAIN clientConnections : clientConnections[ip] >= 0

\* C4 witness: every admitted connection has been closed again, the counts
\* are back at zero.
C4_Witness ==
    /\ openConnections = 0
    /\ \E ip \in DOMAIN clientConnections : clientConnections[ip] = 0
    /\ \A c \in Conns : Admitted(c) /\ Count(connEvents[c], "ConnectionClosed") = 1

\* C5: with MaxConnections > 0, openConnections never exceeds MaxConnections;
\* a connection accepted while openConnections >= MaxConnections is closed,
\* gets ConnectionClosed and no ConnectionOpened, is never handed to a
\* lifecycle task, and leaves the counters alone.
C5_GlobalCap ==
    /\ [](MaxConnections > 0 => openConnections <= MaxConnections)
    /\ [](\A c \in Conns :
            connState[c] = "refused" =>
                connEvents[c] = <<"ConnectionClosed">> /\ tcpClosed[c])
    /\ [][(AcceptsConn /\ MaxConnections > 0
                       /\ openConnections >= MaxConnections)
            => /\ connState'[nextConn] = "refused"
               /\ connEvents'[nextConn] = <<"ConnectionClosed">>
               /\ tcpClosed'[nextConn]
               /\ UNCHANGED <<openConnections, clientConnections, wg>>]_vars
    /\ [][\A c \in Conns : connState[c] = "refused" =>
                              connState'[c] = "refused"]_vars

\* C5 witness: the server is at its cap and a further connection was refused.
C5_Witness ==
    /\ MaxConnections > 0
    /\ openConnections = MaxConnections
    /\ \E c \in Conns : connState[c] = "refused"

\* C6: with MaxClientConnections = K > 0, clientConnections[ip] never exceeds
\* K; a connection from an IP below K (the global cap permitting) is admitted,
\* MaxClientConnectionsEvent is emitted exactly at the admission that brings
\* the IP to K, and a connection from an IP already at K is refused with
\* ConnectionClosed and no task. Of K+1 connections from one IP with none
\* closed (no global cap) the first K are admitted, the K-th alone carries
\* MaxClientConnectionsEvent, and the last is refused.
C6_ClientCap ==
    /\ [](MaxClientConnections > 0 =>
            \A ip \in DOMAIN clientConnections :
                clientConnections[ip] <= MaxClientConnections)
    /\ [][(AcceptsConn /\ MaxClientConnections > 0) =>
            LET c  == nextConn
                ip == connIP'[c]
                n  == MapGet(clientConnections, ip)
            IN /\ n >= MaxClientConnections =>
                    /\ connState'[c] = "refused"
                    /\ connEvents'[c] = <<"ConnectionClosed">>
                    /\ UNCHANGED <<openConnections, clientConnections, wg>>
               /\ (n < MaxClientConnections
                     /\ ~(MaxConnections > 0
                            /\ openConnections >= MaxConnections)) =>
                    /\ connState'[c] = "handshake"
                    /\ clientConnections'[ip] = n + 1
                    /\ Count(connEvents'[c], "ConnectionOpened") = 1
                    /\ Count(connEvents'[c], "ConnectionClosed") = 0
                    /\ Count(connEvents'[c], "MaxClientConnectionsEvent")
                         = (IF n + 1 = MaxClientConnections THEN 1 ELSE 0)]_vars
    /\ [](LET K == MaxClientConnections IN
          (/\ K > 0
           /\ MaxConnections = 0
           /\ nextConn > K + 1
           /\ \A c \in 1..(K + 1) : connIP[c] = connIP[1]
           /\ \A c \in 1..K : Count(connEvents[c], "ConnectionClosed") = 0)
          => /\ \A c \in 1..K :
                  /\ Count(connEvents[c], "ConnectionOpened") = 1
                  /\ Count(connEvents[c], "MaxClientConnectionsEvent")
                       = (IF c = K THEN 1 ELSE 0)
             /\ connEvents[K + 1] = <<"ConnectionClosed">>
             /\ connState[K + 1] = "refused")

\* C6 witness: K+1 connections came from one IP, none closed, no global cap:
\* the IP is at K and the last one was refused.
C6_Witness ==
    LET K == MaxClientConnections IN
    /\ K > 0
    /\ MaxConnections = 0
    /\ nextConn > K + 1
    /\ \A c \in 1..(K + 1) : connIP[c] = connIP[1]
    /\ \A c \in 1..K : Count(connEvents[c], "ConnectionClosed") = 0
    /\ clientConnections[connIP[1]] = K
    /\ connState[K + 1] = "refused"

\* C7: MaxConnectionsEvent is edge-triggered: a step emits it exactly when an
\* admission raises openConnections from MaxConnections-1 to MaxConnections,
\* once; never for a refused connection, never when MaxConnections = 0.
C7_MaxConnectionsEdge ==
    /\ [][/\ Total("MaxConnectionsEvent")' - Total("MaxConnectionsEvent")
               = (IF /\ MaxConnections > 0
                     /\ openConnections = MaxConnections - 1
                     /\ openConnections' = MaxConnections
                  THEN 1 ELSE 0)]_vars
    /\ [](\A c \in Conns : connState[c] = "refused" =>
              Count(connEvents[c], "MaxConnectionsEvent") = 0)
    /\ [](MaxConnections = 0 => Total("MaxConnectionsEvent") = 0)

\* C7 witness: the cap was reached twice (a connection closed in between) and
\* the event was emitted for each crossing.
C7_Witness ==
    /\ MaxConnections > 0
    /\ Total("MaxConnectionsEvent") = 2
    /\ openConnections = MaxConnections

\* The automatic Exit caller, started when the handler returns.
AutoExit == <<"auto", 0>>

\* The step takes a shell or exec request from the stream.
TakesShellExec ==
    /\ reqCount' = reqCount + 1
    /\ lastReq'.type \in {"shell", "exec"}

\* C8: the user SessionHandler is invoked at most once: the first shell/exec
\* request sets handled from 0 to 1 and replies true; every later one replies
\* false, invokes nothing and leaves the command vector alone.
C8_HandlerAtMostOnce ==
    /\ [](handlerCalls <= 1)
    /\ [][TakesShellExec =>
            IF handled = 0
            THEN /\ handled' = 1
                 /\ lastReq'.reply = "true"
                 /\ handlerCalls' = handlerCalls + 1
            ELSE /\ handled' = handled
                 /\ lastReq'.reply = "false"
                 /\ handlerCalls' = handlerCalls
                 /\ cmd' = cmd]_vars

\* C8 witness: an exec was accepted, its handler ran, and a later shell/exec
\* was answered false with the command vector still that of the exec.
C8_Witness ==
    /\ handlerCalls = 1
    /\ lastReq.type \in {"shell", "exec"}
    /\ lastReq.reply = "false"
    /\ cmd = << <<"a">>, <<"b">> >>

\* C9: exit-status is sent at most once per session: only the Exit call that
\* flips exited from 0 to 1 sends or closes anything; every other call
\* returns an error and has no effect.
C9_ExitOnce ==
    /\ Len(statusSent) <= 1
    /\ Cardinality({k \in ExitCallers : exitWon[k]}) <= 1
    /\ \A k \in ExitCallers :
          /\ exitEffects[k] # {} => exitWon[k]
          /\ (exitPc[k] = "done" /\ ~exitWon[k]) =>
                 exitResult[k] = "err" /\ exitEffects[k] = {}

\* C9 witness: two Exit calls have returned, one after sending exit-status
\* and closing everything, the other with an error.
C9_Witness ==
    /\ Len(statusSent) = 1
    /\ \E k1, k2 \in ExitCallers :
          /\ exitPc[k1] = "done" /\ exitResult[k1] = "nil"
          /\ exitEffects[k1] = {"exit-status", "winch", "channel", "conn"}
          /\ exitPc[k2] = "done" /\ exitResult[k2] = "err"

\* C10: for every session whose handler returns, with or without a PTY, the
\* exit sequence runs to completion: once the automatic Exit has sent
\* exit-status (with the handler's code) it ends having closed the window
\* channel, the SSH channel and the parent connection.
C10_ExitSequenceCompletes ==
    (exitPc[AutoExit] \in {"done", "panic"}
        /\ "exit-status" \in exitEffects[AutoExit])
    => /\ statusSent = <<Uint32(exitCode[AutoExit])>>
       /\ exitEffects[AutoExit] = {"exit-status", "winch", "channel", "conn"}

\* The step takes an env request from the stream.
TakesEnv ==
    /\ reqCount' = reqCount + 1
    /\ lastReq'.type = "env"

\* fmt.Sprintf("%s=%s", kv.Key, kv.Value) for the payloads the client sends.
EnvEntries == { <<kv[1], "=", kv[2]>> : kv \in EnvPayloads }

\* C11: an env request processed before any shell/exec was accepted appends
\* exactly one KEY=VALUE entry to the end of the environment list and replies
\* true; one processed after replies false and leaves the list unchanged; no
\* other step touches the list, so the handler sees the entries of the env
\* requests that preceded the shell/exec, in client order.
C11_EnvBeforeShellOnly ==
    /\ [][TakesEnv =>
            IF handled = 0
            THEN /\ \E e \in EnvEntries : env' = Append(env, e)
                 /\ lastReq'.reply = "true"
            ELSE /\ env' = env
                 /\ lastReq'.reply = "false"]_vars
    /\ [][~TakesEnv => env' = env]_vars
    /\ [][handled = 1 => env' = env]_vars

\* C11 witness: env FOO=bar was accepted, a shell/exec started the handler,
\* and a later env was answered false with the list still holding FOO=bar only.
C11_Witness ==
    /\ handlerCalls = 1
    /\ lastReq = [type |-> "env", reply |-> "false"]
    /\ env = << <<"FOO", "=", "bar">> >>

\* The step takes a signal request from the stream.
TakesSignal ==
    /\ reqCount' = reqCount + 1
    /\ lastReq'.type = "signal"

\* The signals of a sink log, without their origin.
SignalsOf(log) == [i \in 1..Len(log) |-> log[i][1]]

\* The signals the replay tasks still have to send (of the first task).
ReplayRest == IF replays = <<>> THEN <<>> ELSE replays[1].rest

\* C12: while no sink is registered, a valid signal is appended to the end of
\* the signal buffer while it holds fewer than 128 entries and dropped
\* otherwise, without reply, error or blocking; an unknown signal changes
\* nothing; when a non-nil sink is then registered, what the sink has received
\* followed by what is still to be replayed is the buffer, in arrival order.
C12_BufferAndReplay ==
    /\ [](Len(signalBuffer) <= SignalBufferCap)
    /\ [][(TakesSignal /\ signalCh = "nil") =>
            /\ signalBuffer' =
                 IF lastSig' # "error" /\ Len(signalBuffer) < SignalBufferCap
                 THEN Append(signalBuffer, lastSig')
                 ELSE signalBuffer
            /\ lastReq'.reply = "none"
            /\ loopPc' = "select"
            /\ panicked' = panicked
            /\ sinkLog' = sinkLog]_vars
    /\ []((/\ regCount = 1
           /\ regPc = "idle"
           /\ signalCh = "sink"
           /\ \A i \in DOMAIN sinkLog : sinkLog[i][2] = "replay")
          => SignalsOf(sinkLog) \o ReplayRest = signalBuffer)

\* C12 witness: INT and TERM were buffered, then a sink was registered and
\* has received SIGINT then SIGTERM from the replay.
C12_Witness ==
    /\ signalBuffer = <<"SIGINT", "SIGTERM">>
    /\ regCount = 1
    /\ signalCh = "sink"
    /\ sinkLog = << <<"SIGINT", "replay">>, <<"SIGTERM", "replay">> >>

\* The buffer is full and a further valid signal was dropped.
C12_DropSeen ==
    /\ Len(signalBuffer) = SignalBufferCap
    /\ signalBuffer[SignalBufferCap] = "SIGINT"
    /\ lastReq.type = "signal"
    /\ lastSig = "SIGTERM"

\* C13: signal-before-sink scenario: the client sent signal INT, signal TERM
\* and shell, and the user handler calls Signals(sink) from inside the
\* handler: the call returns and the sink receives SIGINT then SIGTERM.
C13_SignalBeforeSink ==
    /\ (loopPc = "inSignals") ~> (loopPc # "inSignals")
    /\ (loopPc = "inSignals" /\ signalBuffer = <<"SIGINT", "SIGTERM">>)
          ~> (SignalsOf(sinkLog) = <<"SIGINT", "SIGTERM">>)

\* C14: the user handler runs in a task of its own: while it is running, the
\* request loop keeps processing the client's requests. (Stated here in its
\* weakest form: a request the client still has to send while the handler
\* runs and the stream is open is eventually taken, unless the handler
\* returns or the process dies first.)
C14_LoopRunsBesideHandler ==
    \A n \in 0..(MaxReqs - 1) :
        (loopPc = "handler" /\ reqCount = n)
            ~> (reqCount > n \/ loopPc # "handler" \/ reqsClosed \/ panicked)

\* C16: the request loop returns once the request stream is closed, even if
\* the connection context is not cancelled. (From the loop's select.)
C16_ReturnsOnStreamClosed ==
    (reqsClosed /\ loopPc = "select")
        ~> (loopPc = "returned" \/ sessCtxDone \/ panicked)

\* C17: after the connection context is cancelled (as it is with the server
\* context), the session request loop, with a handler that honours the
\* context, eventually returns.
C17_CancellationCascades ==
    sessCtxDone ~> (loopPc = "returned" \/ panicked)

FirstAt(log, e) ==
    IF \E i \in DOMAIN log : log[i] = e
    THEN CHOOSE i \in DOMAIN log :
            log[i] = e /\ \A j \in 1..(i - 1) : log[j] # e
    ELSE 0

\* C18: on shutdown the acceptor emits ServerStopped exactly once and
\* ListenerClosed exactly once, ServerStopped first, and none before it leaves
\* its loop; no loop iteration that starts after the server context was
\* cancelled admits a connection (no ConnectionOpened, no counter increment).
C18_ShutdownEvents ==
    /\ [](accPc \in {"start", "loop"} =>
            /\ Count(srvEvents, "ServerStopped") = 0
            /\ Count(srvEvents, "ListenerClosed") = 0)
    /\ [](accPc \in {"drain", "returned"} =>
            /\ Count(srvEvents, "ServerStopped") = 1
            /\ Count(srvEvents, "ListenerClosed") = 1
            /\ FirstAt(srvEvents, "ServerStopped")
                  < FirstAt(srvEvents, "ListenerClosed")
            /\ ~listenerOpen)
    /\ [][ctxDone =>
            /\ Total("ConnectionOpened")' = Total("ConnectionOpened")
            /\ openConnections' <= openConnections
            /\ wg' <= wg
            /\ \A ip \in DOMAIN clientConnections' :
                  clientConnections'[ip] <= MapGet(clientConnections, ip)]_vars

\* C18 witness: the server was stopped with one connection admitted and a
\* client still to connect; the acceptor has left its loop and returned
\* without admitting it.
C18_Witness ==
    /\ accPc = "returned"
    /\ ctxDone
    /\ nextConn = 2
    /\ Admitted(1)
    /\ srvEvents = <<"ServerStarted", "ListenerOpened",
                     "ServerStopped", "ListenerClosed">>

\* Notifications connection c's task has sent on the close channel: those
\* still in the channel and those the acceptor has received (each received
\* one is reported by a ConnectionClosed event of an admitted connection).
Notified(c) ==
    Count(closeCh, c)
    + (IF Admitted(c) THEN Count(connEvents[c], "ConnectionClosed") ELSE 0)

\* C19: the lifecycle task of an admitted connection sends exactly one
\* notification on the close channel, on both exit paths (handshake failure,
\* channel stream closed after a successful handshake): none before its send,
\* one once it has ended, never a second; the send happens only after the TCP
\* connection has been closed; a refused connection sends none.
C19_OneCloseNotification ==
    /\ [](\A c \in Conns :
            /\ Notified(c) <= 1
            /\ Notified(c) = 1 <=> connState[c] = "exited"
            /\ Notified(c) = 1 => Admitted(c) /\ tcpClosed[c])
    /\ [][\A c \in Conns :
            Notified(c)' # Notified(c) =>
                /\ Notified(c)' = Notified(c) + 1
                /\ connState[c] = "notifying"
                /\ tcpClosed[c]]_vars
    /\ [][\A c \in Conns :
            (connState[c] \in {"handshake", "serving"}
                /\ connState'[c] # connState[c]
                /\ connState'[c] # "serving")
            => connState'[c] = "notifying" /\ tcpClosed'[c]]_vars

\* C19 witness: one connection failed its handshake, another was served and
\* its channel stream closed; each task has ended after one notification.
C19_Witness ==
    \E c1, c2 \in Conns :
        /\ Count(connEvents[c1], "HandshakeFailed") = 1
        /\ Count(connEvents[c2], "HandshakeSuccessful") = 1
        /\ connState[c1] = "exited" /\ Notified(c1) = 1
        /\ connState[c2] = "exited" /\ Notified(c2) = 1

\* C20: PTY write normalization (every \n replaced by \r\n, then every
\* \r\r\n by \r\n) is idempotent: for every input, applying it twice yields
\* the same bytes as applying it once; what Write sends with a PTY is
\* Normalize of its input and is left as it is by a further Write.
C20_NormalizeIdempotent ==
    /\ [](Normalize(Normalize(wIn)) = Normalize(wIn))
    /\ [][(pty.present /\ wOut' # wOut) =>
            /\ wOut' = Normalize(wIn)
            /\ Normalize(wOut') = wOut']_vars

\* C20 witness: with a PTY, \n\n\n was written and went out as \r\n\r\n\r\n
\* (longer than any first input); that output was written again and went out
\* unchanged.
C20_Witness ==
    /\ pty.present
    /\ wIn = <<"CR", "LF", "CR", "LF", "CR", "LF">>
    /\ wOut = wIn

\* C21: for every Write on a session with a PTY the returned count is at most
\* the length of the input (the channel's count cut to it), whatever the
\* channel reports for the normalized bytes; without a PTY the bytes and the
\* count are passed through unchanged.
C21_WriteCount ==
    [][(<<wOut, wChN, wN>>' # <<wOut, wChN, wN>>) =>
        IF pty.present
        THEN /\ wOut' = Normalize(wIn)
             /\ wN' <= Len(wIn)
             /\ wN' = (IF wChN' > Len(wIn) THEN Len(wIn) ELSE wChN')
        ELSE /\ wOut' = wIn
             /\ wN' = wChN']_vars

\* C21 witness: with a PTY, \n\n was written: four bytes went to the channel,
\* which reported four, and Write returned two.
C21_Witness ==
    /\ pty.present
    /\ wIn = <<"LF", "LF">>
    /\ wOut = <<"CR", "LF", "CR", "LF">>
    /\ wChN = 4
    /\ wN = 2

\* C22: the wrapped public-key callback returns nil permissions and the
\* caller's error when the caller's callback fails; otherwise it returns
\* permissions that are not nil, with an extensions map that is not nil and
\* holds pub-key-type, pub-key-data and pub-key-fingerprint of the
\* authenticating key, whether the caller returned nil permissions, nil
\* extensions or an existing map, whose other entries are kept; a nil callback
\* yields ErrNoAuth.
C22_WrappedCallback ==
    pkOut.called =>
        IF ~pkCb.present
        THEN pkOut.permNil /\ pkOut.err = "ErrNoAuth"
        ELSE IF pkCb.err # "nil"
        THEN pkOut.permNil /\ pkOut.err = pkCb.err
        ELSE /\ ~pkOut.permNil
             /\ ~pkOut.extNil
             /\ pkOut.err = "nil"
             /\ DOMAIN pkOut.ext = Builtin \cup DOMAIN pkCb.ext
             /\ pkOut.ext[permKeyType] = KeyType(pkKey)
             /\ pkOut.ext[permKeyData] = KeyData(pkKey)
             /\ pkOut.ext[permKeyFingerprint] = KeyFingerprint(pkKey)
             /\ \A n \in DOMAIN pkCb.ext \ Builtin :
                    pkOut.ext[n] = pkCb.ext[n]

\* C22 witness: the caller's callback returned extensions holding a role and
\* a stale pub-key-type; the wrapper kept the role and wrote the key's type.
C22_Witness ==
    /\ pkOut.called
    /\ pkCb.present /\ pkCb.err = "nil" /\ ~pkCb.extNil
    /\ DOMAIN pkCb.ext = {"role", permKeyType}
    /\ pkCb.ext[permKeyType] = "stale"
    /\ pkKey = "rsa"
    /\ pkOut.ext["role"] = pkCb.ext["role"]
    /\ pkOut.ext[permKeyType] = "ssh-rsa"

\* C23: an option that touches the SSH configuration (WithPasswordAuth,
\* WithPublicKeyAuth, WithAuthLogCallback, WithNoClientAuth) applied to a
\* Config whose ServerConfig is nil returns an error and leaves the Config as
\* it was; New called on such a Config returns an error and no server.
C23_NilServerConfigFails ==
    /\ [](optPc = "serving" => conf.ServerConfig.present)
    /\ [][/\ (/\ optI' = optI + 1
              /\ opts[optI + 1] \in SSHOptions
              /\ ~conf.ServerConfig.present)
             => /\ lastOpt' = [name |-> opts[optI + 1], err |-> TRUE]
                /\ conf' = conf
                /\ optPc' = "failed"
          /\ (/\ optPc = "opts"
              /\ optI = Len(opts)
              /\ optPc' # optPc
              /\ ~conf.ServerConfig.present)
             => /\ lastOpt' = [name |-> "New", err |-> TRUE]
                /\ optPc' = "failed"]_vars

\* C23 witness: WithServerConfig(nil) was applied, then WithNoClientAuth
\* failed.
C23_Witness ==
    /\ optPc = "failed"
    /\ opts = <<"WithServerConfig(nil)", "WithNoClientAuth">>
    /\ lastOpt = [name |-> "WithNoClientAuth", err |-> TRUE]
    /\ ~conf.ServerConfig.present

\* C24: on the ListenAndServe(addr, opts...) path, once all options have been
\* applied without error the Config has a handler for channel type session:
\* the default one when no option supplied one, the user's when one did.
C24_SessionHandlerRegistered ==
    ((optPc = "opts" /\ optI = Len(opts)) \/ optPc = "serving") =>
        /\ "session" \in DOMAIN conf.ChannelHandlers
        /\ conf.ChannelHandlers["session"] =
               (IF \E i \in 1..Len(opts) :
                       opts[i] = "WithChannelHandler(session)"
                    THEN "user" ELSE "default")

\* C24 witness: the caller registered a session handler and the server was
\* created with it.
C24_Witness ==
    /\ optPc = "serving"
    /\ opts = <<"WithChannelHandler(session)", "WithNoClientAuth">>
    /\ conf.ChannelHandlers["session"] = "user"

\* C25: the global cap is checked before the per-IP cap; a connection refused
\* by either check leaves openConnections, clientConnections and the wait
\* group as they were; a connection that meets both caps is refused by the
\* global check, and exactly one ConnectionClosed is emitted for it.
C25_AdmissionOrder ==
    /\ [](\A c \in Conns :
            connState[c] = "refused" =>
                /\ refusedBy[c] \in {"global", "client"}
                /\ connEvents[c] = <<"ConnectionClosed">>)
    /\ [][\A c \in Conns :
            (connState[c] = "none" /\ connState'[c] # "none") =>
                LET g == MaxConnections > 0
                             /\ openConnections >= MaxConnections
                    p == /\ MaxClientConnections > 0
                         /\ connIP'[c] \in DOMAIN clientConnections
                         /\ clientConnections[connIP'[c]]
                                >= MaxClientConnections
                IN /\ g => refusedBy'[c] = "global"
                   /\ (~g /\ p) => refusedBy'[c] = "client"
                   /\ (~g /\ ~p) => refusedBy'[c] = "none"
                   /\ (g \/ p) =>
                        /\ connState'[c] = "refused"
                        /\ UNCHANGED <<openConnections, clientConnections,
                                       wg>>
                        /\ connEvents'[c] = <<"ConnectionClosed">>
                   /\ (~g /\ ~p) => connState'[c] = "handshake"]_vars

\* C25 witness: a connection that met both caps was refused by the global
\* check, with one ConnectionClosed.
C25_Witness ==
    \E c \in Conns :
        /\ connState[c] = "refused"
        /\ refusedBy[c] = "global"
        /\ MaxClientConnections > 0
        /\ connIP[c] \in DOMAIN clientConnections
        /\ clientConnections[connIP[c]] >= MaxClientConnections
        /\ connEvents[c] = <<"ConnectionClosed">>

C27_PtySetAtMostOnce ==
    [][/\ (reqCount' = reqCount + 1 /\ lastReq'.type = "pty-req") =>
             IF allowPty /\ handled = 0 /\ ~pty.present
             THEN \/ /\ lastReq'.reply = "true"
                     /\ pty'.present
                     /\ winch' = [state |-> "open", buf |-> <<pty'.window>>]
                  \/ /\ lastReq'.reply = "false"
                     /\ UNCHANGED <<pty, winch>>
             ELSE /\ lastReq'.reply = "false"
                  /\ UNCHANGED <<pty, winch>>
       /\ pty.present => pty'.present
       /\ (~pty.present /\ pty'.present) =>
             /\ lastReq' = [type |-> "pty-req", reply |-> "true"]
             /\ allowPty /\ handled = 0]_vars

\* C27 witness: a second pty-req on a session that has a PTY was answered
\* false.
C27_Witness ==
    /\ pty.present
    /\ handled = 0
    /\ reqCount = 2
    /\ lastReq = [type |-> "pty-req", reply |-> "false"]
    /\ winch = [state |-> "open", buf |-> <<pty.window>>]

\* C28: a window-change on a session without a PTY is answered false and
\* changes nothing; one on a session with a PTY and a payload that parses
\* updates the PTY's window, and its send on the window channel goes through
\* and it is answered (or the loop has panicked on a closed channel), whether
\* or not the user handler has received the earlier windows.
C28_WindowChangeAnswered ==
    /\ [][(reqCount' = reqCount + 1 /\ lastReq'.type = "window-change") =>
            IF ~pty.present
            THEN lastReq'.reply = "false" /\ UNCHANGED <<pty, winch>>
            ELSE /\ lastReq'.reply = "true" =>
                        winch'.buf = Append(winch.buf, pty'.window)
                 /\ loopPc' = "winchSend" => pendingWin' = pty'.window
                 /\ lastReq'.reply = "false" => UNCHANGED <<pty, winch>>]_vars
    /\ (loopPc = "winchSend") ~> (loopPc # "winchSend" \/ panicked)

\* C29: after a failed handshake HandshakeFailed is the connection's only
\* handshake event, the task never serves channels or global requests, the
\* TCP connection is closed, and the task's notification on the close channel
\* goes through.
C29_FailedHandshakeCleansUp ==
    /\ [](\A c \in Conns :
            Count(connEvents[c], "HandshakeFailed") > 0 =>
                /\ Count(connEvents[c], "HandshakeFailed") = 1
                /\ Count(connEvents[c], "HandshakeSuccessful") = 0
                /\ connState[c] \in {"notifying", "exited"}
                /\ tcpClosed[c])
    /\ \A c \in Conns :
          (Count(connEvents[c], "HandshakeFailed") > 0)
              ~> (connState[c] = "exited")

\* C30: a global request whose type has a handler gives a Request event, one
\* call of the handler and, only if the request wants a reply, a reply with
\* the handler's (ok, payload); one whose type has none gives an
\* UnknownRequest event, no call and, only if it wants a reply, a false
\* reply.
C30_GlobalRequests ==
    /\ Len(greqLog) = greqCount
    /\ \A i \in DOMAIN greqLog :
         LET r == greqLog[i] IN
         /\ r.reply.sent <=> r.want
         /\ IF r.type \in RequestHandlers
            THEN /\ r.event = "Request"
                 /\ r.calls = 1
                 /\ r.reply.sent =>
                        r.reply.ok = r.ret /\ r.reply.payload = r.payload
            ELSE /\ r.event = "UnknownRequest"
                 /\ r.calls = 0
                 /\ r.reply.sent => ~r.reply.ok /\ r.reply.payload = "nil"

\* C30 witness: a request with a handler that wanted a reply got the
\* handler's answer; one without a handler that wanted none got no reply.
C30_Witness ==
    /\ RequestHandlers = {"tcpip-forward"}
    /\ Len(greqLog) = 2
    /\ greqLog[1].type = "tcpip-forward"
    /\ greqLog[1].reply = [sent |-> TRUE, ok |-> TRUE, payload |-> "port"]
    /\ greqLog[2].type = "keepalive"
    /\ greqLog[2].event = "UnknownRequest"
    /\ ~greqLog[2].reply.sent

\* C31: for every channel a client opens on a connection: if its type has a
\* handler, a Channel event is emitted and the handler is started once, with
\* the context of that connection, and the channel is not rejected; otherwise
\* the channel is rejected with UnknownChannelType, an UnknownChannel event is
\* emitted and no handler is started; either way the loop stays in its range
\* over the channel stream.
C31_ChannelDemux ==
    /\ [](\A c \in Conns : \A i \in DOMAIN chanLog[c] :
            LET r == chanLog[c][i] IN
            IF r.type \in ChannelHandlers
            THEN /\ r.event = "Channel"
                 /\ r.started = <<c>>
                 /\ r.rejected = "no"
            ELSE /\ r.event = "UnknownChannel"
                 /\ r.started = <<>>
                 /\ r.rejected = "UnknownChannelType")
    /\ [][\A c \in Conns :
            chanLog'[c] # chanLog[c] =>
                /\ Len(chanLog'[c]) = Len(chanLog[c]) + 1
                /\ connState[c] = "serving" /\ connState'[c] = "serving"
                /\ connEvents'[c] =
                       Append(connEvents[c],
                              chanLog'[c][Len(chanLog'[c])].event)]_vars

\* C31 witness: on one connection an x11 channel was rejected and the session
\* channel opened after it got its handler.
C31_Witness ==
    \E c \in Conns :
        /\ Len(chanLog[c]) = 2
        /\ chanLog[c][1].type = "x11"
        /\ chanLog[c][1].rejected = "UnknownChannelType"
        /\ chanLog[c][2].type = "session"
        /\ chanLog[c][2].started = <<c>>
        /\ connState[c] = "serving"

\* C37: the events of an admitted connection are in the order
\* ConnectionOpened, then one of HandshakeSuccessful and HandshakeFailed, then
\* ConnectionClosed (the last event, at most once); Channel and UnknownChannel
\* events occur only after HandshakeSuccessful and before ConnectionClosed.
C37_EventOrder ==
    \A c \in Conns :
        connState[c] \notin {"none", "refused"} =>
            LET L == connEvents[c]
                o == FirstAt(L, "ConnectionOpened")
                hs == FirstAt(L, "HandshakeSuccessful")
                hf == FirstAt(L, "HandshakeFailed")
                cl == FirstAt(L, "ConnectionClosed")
            IN /\ Count(L, "ConnectionOpened") = 1
               /\ Count(L, "HandshakeSuccessful")
                    + Count(L, "HandshakeFailed") <= 1
               /\ Count(L, "ConnectionClosed") <= 1
               /\ hs > 0 => o < hs
               /\ hf > 0 => o < hf
               /\ connState[c] # "handshake" => hs + hf > 0
               /\ cl > 0 => (hs + hf > 0 /\ hs + hf < cl /\ cl = Len(L))
               /\ \A i \in DOMAIN L :
                    L[i] \in {"Channel", "UnknownChannel"} =>
                        /\ hs > 0 /\ hs < i
                        /\ cl > 0 => i < cl

\* C37 witness: a connection went through all of it: opened, handshake,
\* a channel with a handler, one without, closed.
C37_Witness ==
    \E c \in Conns :
        connEvents[c] = <<"ConnectionOpened", "HandshakeSuccessful",
                          "Channel", "UnknownChannel", "ConnectionClosed">>

\* C34: in every reachable state of the acceptor the wait group's counter
\* equals openConnections and is not negative; it goes up by one exactly in
\* the step that admits a connection and down by one exactly in the step that
\* processes a close notification.
C34_BarrierIsOpenConnections ==
    /\ [](wg = openConnections /\ wg >= 0)
    /\ [][LET admits == \E c \in Conns : /\ connState[c] = "none"
                                         /\ connState'[c] = "handshake"
              closes == Len(closeCh') < Len(closeCh)
          IN /\ admits <=> wg' = wg + 1
             /\ closes <=> wg' = wg - 1
             /\ wg' \in {wg - 1, wg, wg + 1}]_vars

\* C34 witness: two connections were admitted, one has been closed and its
\* notification processed, the other is being served: the counter is at one.
C34_Witness ==
    /\ wg = 1
    /\ openConnections = 1
    /\ closeCh = <<>>
    /\ \E c \in Conns : /\ connState[c] = "exited"
                        /\ Count(connEvents[c], "ConnectionClosed") = 1
    /\ \E c \in Conns : connState[c] = "serving"

\* What the acceptor and the connection tasks show, the signal channel left
\* out.
ShutdownView ==
    <<closeCh, accPc, stopPc, listenerOpen, wg, openConnections,
      clientConnections, deadline, nextConn, connIP, connState, tcpClosed,
      srvEvents, connEvents>>

\* C33: shutdown by a signal is shutdown by the context: the step that takes
\* a value from SignalChan cancels the server context and does nothing else
\* that shows (it is the step of a direct cancellation, or no step when the
\* context was cancelled already), a signal that only arrives shows nothing,
\* and once the context is cancelled the acceptor does what it does after a
\* direct cancellation: it admits no connection, emits ServerStopped and
\* ListenerClosed once, in this order, closes the listener and goes to its
\* drain. A nil SignalChan stays nil and its branch is never taken.
C33_SignalIsCancellation ==
    /\ [](sigChan = "stopped" => ctxDone)
    /\ [](accPc \in {"drain", "returned"} =>
            /\ ctxDone
            /\ ~listenerOpen
            /\ srvEvents = <<"ServerStarted", "ListenerOpened",
                             "ServerStopped", "ListenerClosed">>)
    /\ [][sigChan' # sigChan =>
            /\ sigChan # "nil"
            /\ UNCHANGED ShutdownView
            /\ IF sigChan' = "stopped"
               THEN sigChan = "pending" /\ accPc = "loop" /\ ctxDone'
               ELSE UNCHANGED ctxDone]_vars
    /\ [][sigChan = "nil" => sigChan' = "nil"]_vars
    /\ [][(ctxDone /\ accPc = "loop") =>
            /\ nextConn' = nextConn
            /\ accPc' \in {"loop", "drain"}
            /\ accPc' = "drain" =>
                 srvEvents' = srvEvents \o <<"ServerStopped",
                                             "ListenerClosed">>]_vars

\* C33 witness: a signal stopped the server (Stop was not called) after a
\* connection had been admitted and closed; ListenAndServe has returned.
C33_Witness ==
    /\ sigChan = "stopped"
    /\ stopPc = "idle"
    /\ accPc = "returned"
    /\ wg = 0
    /\ Admitted(1)
    /\ srvEvents = <<"ServerStarted", "ListenerOpened",
                     "ServerStopped", "ListenerClosed">>

\* Number of double quotes of a command string: the string can be split when
\* every quote is closed, that is, when the number is even.
Quotes(str) == Cardinality({i \in DOMAIN str : str[i] = "Q"})

\* C32: Command() is the shell-split of the exec payload for a session started
\* by exec and empty for one started by shell; an exec whose payload cannot be
\* split is accepted all the same (reply true, handler invoked) and Command()
\* is empty.
C32_Command ==
    /\ [](cmdOrigin.type # "none" =>
            IF cmdOrigin.type = "shell"
            THEN cmd = <<>>
            ELSE IF Quotes(cmdOrigin.payload) % 2 = 0
            THEN cmd = Split(cmdOrigin.payload).words
            ELSE cmd = <<>>)
    /\ [][cmdOrigin' # cmdOrigin =>
            /\ lastReq' = [type |-> cmdOrigin'.type, reply |-> "true"]
            /\ handlerCalls' = handlerCalls + 1]_vars

\* C36: no value is sent on a closed window channel: a window-change request
\* taken after Exit has closed the channel attempts no send (the loop neither
\* panics nor touches the channel), and no send that is under way meets the
\* closed channel.
C36_NoSendOnClosedWinch ==
    /\ [][(/\ winch.state = "closed"
           /\ reqCount' = reqCount + 1
           /\ lastReq'.type = "window-change")
          => /\ ~panicked'
             /\ loopPc' # "winchSend"
             /\ UNCHANGED winch]_vars
    /\ [][(~panicked /\ panicked') => winch.state # "closed"]_vars

\* Number of signals the replay tasks have delivered to a sink so far.
ReplayDeliveries == Cardinality({i \in DOMAIN sinkLog : sinkLog[i][2] = "replay"})

\* C35: each buffered signal is delivered to a sink at most once over the
\* life of the session, so the replay tasks together never deliver more
\* signals than were ever buffered (the buffer only grows), whatever
\* sequence of registrations and unregistrations user code makes; and
\* registering nil never starts a replay task.
C35_BufferedSignalsOnce ==
    /\ ReplayDeliveries <= Len(signalBuffer)
    /\ \A i \in DOMAIN replays : replays[i].to # "nil"

====
